---- MODULE Spec2Model ----
(***************************************************************************)
(* Model of the gen-ai-on-aws API service: the ElevenLabs webhook          *)
(* configuration resolver (api/gen_ai_on_aws/endpoints/endpoints.py), its  *)
(* header authentication (api/gen_ai_on_aws/auth.py) and the phone number  *)
(* normalizer used by the resolver.                                        *)
(*                                                                         *)
(* Python strings that the code inspects character by character (phone     *)
(* numbers) are sequences of one-character strings.  Strings that the code *)
(* only compares or passes on (secrets, names) are TLA+ strings.           *)
(***************************************************************************)
EXTENDS Integers, Sequences, FiniteSets, TLC

(***************************************************************************)
(* Bounds of the model.                                                    *)
(***************************************************************************)
\* longest run of digits appended to a prefix when phone inputs are built
MaxDigits == 11
\* largest number of rows the data store returns to one lookup
MaxRows == 2

(***************************************************************************)
(* Characters and Python string helpers.                                   *)
(***************************************************************************)
AsciiDigits == {"0", "1", "2", "3", "4", "5", "6", "7", "8", "9"}

\* "u0663" stands for the one character ARABIC-INDIC DIGIT THREE, for which
\* str.isdigit() is true although it is not an ASCII digit.
NonAsciiDigits == {"u0663"}

\* str.isdigit() on one character
isdigit(c) == c \in AsciiDigits \cup NonAsciiDigits

Min(a, b) == IF a < b THEN a ELSE b

Max(a, b) == IF a > b THEN a ELSE b

\* Python s[a:b] for 0 <= a, 0 <= b (0-based, end exclusive, clamped)
Slice(s, a, b) == SubSeq(s, a + 1, Min(b, Len(s)))

\* Python s[a:]
SliceFrom(s, a) == SubSeq(s, a + 1, Len(s))

\* Python s[-n:] for n > 0
Tail_n(s, n) == SubSeq(s, Max(Len(s) - n, 0) + 1, Len(s))

\* Python s.startswith(p)
startswith(s, p) == Len(s) >= Len(p) /\ SubSeq(s, 1, Len(p)) = p

RECURSIVE join(_, _)
\* Python sep.join(parts) for a list of strings
join(sep, parts) ==
  IF parts = <<>> THEN <<>>
  ELSE IF Len(parts) = 1 THEN parts[1]
  ELSE parts[1] \o sep \o join(sep, SubSeq(parts, 2, Len(parts)))

Anonymous == <<"A", "n", "o", "n", "y", "m", "o", "u", "s">>

Sep == <<" ", "-", " ">>

(***************************************************************************)
(* Phone number normalizer: _format_phone_number and _can_receive_sms.     *)
(***************************************************************************)
\* the generator condition of the cleaning comprehension, mutated: a '+' is
\* kept only when it is the first character of the input
KeepCharLeadingPlusOnly(s, i) == isdigit(s[i]) \/ (s[i] = "+" /\ i = 1)

\* `c.isdigit() or c == "+"` for the character at (1-based) position i of s
KeepChar(s, i) == isdigit(s[i]) \/ s[i] = "+"

RECURSIVE CleanFrom(_, _)
\* the comprehension "".join(c for c in phone_number if ...) from position i on
CleanFrom(s, i) ==
  IF i > Len(s) THEN <<>>
  ELSE (IF KeepChar(s, i) THEN <<s[i]>> ELSE <<>>) \o CleanFrom(s, i + 1)

Clean(phone_number) == CleanFrom(phone_number, 1)

\* the sentinel test, mutated: only the literal "Anonymous" is a sentinel
\* (the emptiness test is lost)
IsSentinelNoEmpty(phone_number) == phone_number = Anonymous

\* `not phone_number or phone_number == "Anonymous"`
IsSentinel(phone_number) == phone_number = <<>> \/ phone_number = Anonymous

\* the US/Canada branch, mutated: the slices are shifted by one
FormatUSShifted(cleaned) ==
  <<"+", "1">> \o Sep \o Slice(cleaned, 1, 4) \o Sep \o Slice(cleaned, 4, 7)
    \o Sep \o SliceFrom(cleaned, 7)

\* f"+1 - {cleaned[2:5]} - {cleaned[5:8]} - {cleaned[8:]}"
FormatUS(cleaned) ==
  <<"+", "1">> \o Sep \o Slice(cleaned, 2, 5) \o Sep \o Slice(cleaned, 5, 8)
    \o Sep \o SliceFrom(cleaned, 8)

RECURSIVE GroupsFromPairs(_, _)
\* the grouping loop, mutated: the step is 3 but each group takes 2 characters
GroupsFromPairs(remaining, i) ==
  IF i >= Len(remaining) THEN <<>>
  ELSE <<Slice(remaining, i, i + 2)>> \o GroupsFromPairs(remaining, i + 3)

RECURSIVE GroupsFrom(_, _)
\* for i in range(0, len(remaining), 3): groups.append(remaining[i : i + 3])
GroupsFrom(remaining, i) ==
  IF i >= Len(remaining) THEN <<>>
  ELSE <<Slice(remaining, i, i + 3)>> \o GroupsFrom(remaining, i + 3)

\* the German branch: country_code, remaining, groups, the joined result
FormatDE(cleaned) ==
  LET country_code == Slice(cleaned, 0, 3)
      remaining == SliceFrom(cleaned, 3)
      groups == GroupsFrom(remaining, 0)
  IN  country_code \o Sep \o join(Sep, groups)

\* the default branch, mutated: the cleaned string is returned
FormatDefaultCleaned(phone_number, cleaned) == cleaned

\* "Default formatting for other numbers": return phone_number
FormatDefault(phone_number, cleaned) == phone_number

_format_phone_number(phone_number) ==
  IF IsSentinel(phone_number) THEN Anonymous
  ELSE LET cleaned == Clean(phone_number)
       IN  IF cleaned = <<>> THEN phone_number
           ELSE IF startswith(cleaned, <<"+", "1">>) /\ Len(cleaned) = 12
                THEN FormatUS(cleaned)
           ELSE IF startswith(cleaned, <<"+", "4", "9">>) THEN FormatDE(cleaned)
           ELSE FormatDefault(phone_number, cleaned)

\* the mobile prefix test, mutated: the second digit is not looked at
IsGermanMobileAnyOneX(after_country) ==
  Len(after_country) >= 2 /\ after_country[1] = "1"

\* len(after_country) >= 2 and after_country[0] == "1"
\*   and after_country[1] in ("5", "6", "7")
IsGermanMobile(after_country) ==
  /\ Len(after_country) >= 2
  /\ after_country[1] = "1"
  /\ after_country[2] \in {"5", "6", "7"}

_can_receive_sms(phone_number) ==
  IF IsSentinel(phone_number) THEN FALSE
  ELSE IF startswith(phone_number, <<"+", "4", "9">>)
       THEN IsGermanMobile(SliceFrom(phone_number, 3))
  ELSE TRUE

(***************************************************************************)
(* Phone inputs of the bounded model: a prefix, a run of digits, and at    *)
(* most one extra character inserted anywhere; plus the literal examples   *)
(* of the tests.                                                           *)
(***************************************************************************)
DigitPool == <<"9", "0", "3", "5", "8", "6", "2", "7", "1", "4">>

DigitRun(off, n) == [i \in 1..n |-> DigitPool[((off + i - 1) % Len(DigitPool)) + 1]]

Prefixes ==
  { <<>>, <<"+">>, <<"+", "1">>, <<"+", "4">>, <<"+", "4", "9">>,
    <<"+", "4", "4">>, <<"1">>, <<"4", "9">>, <<"0", "0", "4", "9">>,
    <<"+", "4", "9", "1">>, <<"+", "4", "9", "1", "4">>,
    <<"+", "4", "9", "1", "5">>, <<"+", "4", "9", "1", "6">>,
    <<"+", "4", "9", "1", "7">>, <<"+", "4", "9", "1", "8">>,
    <<"+", "4", "9", "3", "0">> }

DecoChars == {" ", "-", "+", "x", "u0663"}

Insert(s, k, c) == SubSeq(s, 1, k) \o <<c>> \o SubSeq(s, k + 1, Len(s))

PlainNumbers == { p \o DigitRun(off, n) : p \in Prefixes, off \in {0, 3}, n \in 0..MaxDigits }

DecoratedNumbers ==
  UNION { { Insert(s, k, c) : k \in 0..Len(s), c \in DecoChars } : s \in PlainNumbers }

US_Example == <<"+", "1", "9", "0", "9", "3", "5", "8", "6", "5", "2", "0">>

DE_Example == <<"+", "4", "9", "1", "2", "3", "4", "5", "6", "7", "8", "9", "0">>

DE_Mobile == <<"+", "4", "9", "1", "7", "0", "1", "2", "3", "4", "5", "6", "7">>

DE_Landline == <<"+", "4", "9", "3", "0", "1", "2", "3", "4", "5", "6", "7", "8">>

\* the two callers that the webhook refuses
BlockedCH == <<"+", "4", "1", "7", "9", "3", "0", "0", "0", "1", "6", "1">>

BlockedDE == <<"+", "4", "9", "1", "7", "8", "7", "1", "6", "9", "6", "2", "9">>

LiteralNumbers ==
  { <<>>, Anonymous, <<" ">> \o Anonymous, Anonymous \o <<"1">>, <<"a", "b", "c">>,
    <<"(", ")">>, US_Example, DE_Example, DE_Mobile, DE_Landline,
    <<"1", "2", " ", "+", "3", "4">>,
    <<"+", "4", "9", " ", "1", "7", "+", "0", "-", "5">>,
    <<"+", "1", "(", "9", "0", "9", ")", "3", "5", "8", "+", "6", "5", "2", "0">> }

PhoneInputs == PlainNumbers \cup DecoratedNumbers \cup LiteralNumbers

(***************************************************************************)
(* State.                                                                  *)
(***************************************************************************)
VARIABLES
  env,              \* os.environ: the variables the API reads
  pc,               \* position of the request being served
  req,              \* the request: route, auth header, caller_id, called_number
  supabase_config,  \* value of the get_supabase_config dependency
  steps,            \* the steps of the route's handler body that have run
  dsLog,            \* data-store requests issued while serving the request
  dsReply,          \* what the data store answered
  response,         \* the HTTP response
  phone_number,     \* normalizer: the input string
  cleaned,          \* normalizer: the local `cleaned` of _format_phone_number
  formatted,        \* normalizer: result of _format_phone_number
  sms,              \* normalizer: result of _can_receive_sms
  pdone,            \* normalizer: which of the two functions have returned
  sqs_queue_url,    \* dispatcher: settings.sqs_queue_url
  qpc,              \* dispatcher: position of the request being served
  qreq,             \* dispatcher: the caller and the request text
  queue_service,    \* dispatcher: value of the get_queue_service dependency
  uuid_calls,       \* dispatcher: how many times uuid.uuid4() has been called
  attempts,         \* dispatcher: the sqs_client.send_message calls made so far
  sqs,              \* dispatcher: the message bodies the queue has accepted
  request_id,       \* dispatcher: what the caller of send_message holds
  qresponse,        \* dispatcher: the HTTP response of extract_user_async
  queue_message,    \* wire form: the QueueMessage send_message builds
  message_body,     \* wire form: its MessageBody
  decoded,          \* wire form: what the worker's QueueMessage model reads
  cdone,            \* wire form: which of the two conversions have run
  event,            \* worker: the event lambda_handler was invoked with
  wpc,              \* worker: position of lambda_handler
  bodies,           \* worker: message bodies still to process, in order
  current,          \* worker: the message whose extraction is awaited
  results,          \* worker: the local `results` of lambda_handler
  extractions,      \* worker: start and end of every provider call, in order
  wresponse,        \* worker: what lambda_handler returned
  xoutcome,         \* POST /extract-user: what the provider call did
  xresponse,        \* POST /extract-user: the HTTP response
  rpc,              \* POST /supabase-read: position of the request being served
  rreq,             \* POST /supabase-read: the request body
  rquery,           \* POST /supabase-read: the requests sent to the data store
  rreply,           \* POST /supabase-read: what the data store answered
  rresponse,        \* POST /supabase-read: the HTTP response
  cpc,              \* n8n import-workflow: position of the command
  cargs,            \* n8n import-workflow: the options and the template file
  n8n_server,       \* n8n import-workflow: the workflows the server holds
  crequests,        \* n8n import-workflow: the requests sent to the server
  existing_workflow, \* n8n import-workflow: the local of that name
  exit_code         \* n8n import-workflow: the exit code of the run

api_vars == <<env, pc, req, supabase_config, steps, dsLog, dsReply, response>>

phone_vars == <<phone_number, cleaned, formatted, sms, pdone>>

queue_vars == <<sqs_queue_url, qpc, qreq, queue_service, uuid_calls, attempts, sqs, request_id, qresponse>>

codec_vars == <<queue_message, message_body, decoded, cdone>>

worker_vars == <<event, wpc, bodies, current, results, extractions, wresponse, xoutcome, xresponse>>

read_vars == <<rpc, rreq, rquery, rreply, rresponse>>

cli_vars == <<cpc, cargs, n8n_server, crequests, existing_workflow, exit_code>>

vars == <<api_vars, phone_vars, queue_vars, codec_vars, worker_vars, read_vars, cli_vars>>

(***************************************************************************)
(* Python / JSON values.                                                   *)
(***************************************************************************)
\* Python None where a string is expected (os.environ.get, a missing header)
None == "<None>"

\* `not x` for x: str | None
Falsy(x) == x = None \/ x = ""

\* JSON leaves of a row; Missing is a key that the dict does not have
Missing == [t |-> "missing", v |-> ""]

Null == [t |-> "null", v |-> ""]

Str(s) == [t |-> "str", v |-> s]

Bool(b) == [t |-> "bool", v |-> IF b THEN "True" ELSE "False"]

\* d.get(key, default) on the leaf stored under key
GetOr(leaf, default) == IF leaf.t = "missing" THEN default ELSE leaf

\* str(x)
PyStr(leaf) == IF leaf.t = "null" THEN "None" ELSE leaf.v

(***************************************************************************)
(* Responses.                                                              *)
(***************************************************************************)
NoVariables == [k \in {} |-> Null]

\* raise HTTPException(status_code, detail)
HTTPError(status, detail) ==
  [status |-> status, detail |-> detail, dynamic_variables |-> NoVariables]

\* return ElevenLabsWebhookResponse(dynamic_variables=dv): FastAPI answers 200
WebhookResponse(dv) == [status |-> 200, detail |-> "", dynamic_variables |-> dv]

NoResponse == [status |-> 0, detail |-> "", dynamic_variables |-> NoVariables]

(***************************************************************************)
(* auth.py                                                                 *)
(***************************************************************************)
\* result of a dependency: either a value or a raised HTTPException
Returned(value) == [raised |-> FALSE, value |-> value, error |-> NoResponse]

Raised(error) == [raised |-> TRUE, value |-> None, error |-> error]

verify_webhook_auth(auth, environ) ==
  LET expected_auth == environ["ELEVENLABS_WEBHOOK_AUTH"]
  IN  IF Falsy(expected_auth)
        THEN Raised(HTTPError(500, "Webhook authentication not configured"))
      ELSE IF Falsy(auth)
        THEN Raised(HTTPError(401, "Missing authentication header"))
      ELSE IF auth # expected_auth
        THEN Raised(HTTPError(401, "Unauthorized"))
      ELSE Returned(auth)

\* the verify_auth closure that create_auth_dependency(env_var_name, ...) returns
verify_auth(env_var_name, header_value, environ) ==
  LET expected_auth == environ[env_var_name]
  IN  IF Falsy(expected_auth)
        THEN Raised(HTTPError(500, "Authentication not configured"))
      ELSE IF Falsy(header_value)
        THEN Raised(HTTPError(401, "Missing authentication header"))
      ELSE IF header_value # expected_auth
        THEN Raised(HTTPError(401, "Unauthorized"))
      ELSE Returned(header_value)

(***************************************************************************)
(* endpoints.py: dependencies                                              *)
(***************************************************************************)
get_supabase_config(environ) ==
  LET supabase_url == environ["SUPABASE_URL"]
      supabase_key == environ["SUPABASE_KEY"]
  IN  IF Falsy(supabase_url) \/ Falsy(supabase_key)
        THEN Raised(HTTPError(500,
               "Supabase URL and key must be configured in environment variables"))
      ELSE Returned(<<supabase_url, supabase_key>>)

NoConfig == <<None, None>>

(***************************************************************************)
(* Rows of the lookup.  A nested object is a record with a tag t:          *)
(* "obj" (a dict), "null" (JSON null) or "missing" (the key is absent);    *)
(* the fields of a record whose tag is not "obj" are not read.             *)
(***************************************************************************)
Account(t, name, test_account, hotel_category, preferred_currency) ==
  [t |-> t, name |-> name, test_account |-> test_account,
   hotel_category |-> hotel_category, preferred_currency |-> preferred_currency]

AgentConfig(t, welcomeMessage, agentName, formOfAddress) ==
  [t |-> t, welcomeMessage |-> welcomeMessage, agentName |-> agentName,
   formOfAddress |-> formOfAddress]

PhoneNumberConfig(t, aura_account, agent_config) ==
  [t |-> t, aura_account |-> aura_account, agent_config |-> agent_config]

\* the dict {} that .get(key, {}) falls back to
EmptyAccount == Account("obj", Missing, Missing, Missing, Missing)

EmptyAgentConfig == AgentConfig("obj", Missing, Missing, Missing)

EmptyPhoneNumberConfig ==
  PhoneNumberConfig("obj", [EmptyAccount EXCEPT !.t = "missing"],
                    [EmptyAgentConfig EXCEPT !.t = "missing"])

AccountPool ==
  { Account("obj", Str("Hotel A"), Bool(FALSE), Str("luxury"), Str("EUR")),
    Account("obj", Str("Hotel B"), Bool(TRUE), Str("budget"), Str("USD")),
    EmptyAccount,
    Account("obj", Null, Null, Null, Null),
    [EmptyAccount EXCEPT !.t = "missing"],
    [EmptyAccount EXCEPT !.t = "null"] }

AgentConfigPool ==
  { AgentConfig("obj", Str("Welcome"), Str("Aura"), Str("Informal")),
    AgentConfig("obj", Null, Missing, Null),
    [EmptyAgentConfig EXCEPT !.t = "missing"],
    [EmptyAgentConfig EXCEPT !.t = "null"] }

PhoneNumberPool ==
  { [EmptyPhoneNumberConfig EXCEPT !.t = "missing"],
    [EmptyPhoneNumberConfig EXCEPT !.t = "null"] }
  \cup { PhoneNumberConfig("obj", a, g) : a \in AccountPool, g \in AgentConfigPool }

Row(id, name, check_in, website, email, closures, phone_number_config) ==
  [id |-> id, location_name |-> name, check_in_support_type |-> check_in,
   website_url |-> website, contact_email |-> email, closure_periods |-> closures,
   phone_number |-> phone_number_config]

FullRow(pn) ==
  Row(Str("loc1"), Str("Test Hotel"), Str("24/7"), Str("https://test-hotel.com"),
      Str("info@test-hotel.com"), Str("2026-01-01"), pn)

SparseRow(pn) == Row(Missing, Null, Missing, Null, Missing, Missing, pn)

\* rows that may come first
RowPool == { FullRow(pn) : pn \in PhoneNumberPool } \cup { SparseRow(pn) : pn \in PhoneNumberPool }

\* rows that may follow the first one
TailRowPool ==
  { FullRow(PhoneNumberConfig("obj",
      Account("obj", Str("Hotel C"), Bool(TRUE), Str("hostel"), Str("CHF")),
      AgentConfig("obj", Str("Hi"), Str("Bot"), Str("Casual")))),
    SparseRow(PhoneNumberConfig("obj",
      Account("obj", Str("Hotel B"), Bool(TRUE), Str("budget"), Str("USD")),
      [EmptyAgentConfig EXCEPT !.t = "missing"])),
    FullRow([EmptyPhoneNumberConfig EXCEPT !.t = "null"]) }

RECURSIVE SeqsUpTo(_, _)
\* the sequences over S of length at most n
SeqsUpTo(S, n) ==
  IF n <= 0 THEN {<<>>}
  ELSE LET shorter == SeqsUpTo(S, n - 1)
       IN  shorter \cup { Append(q, x) : q \in shorter, x \in S }

RowLists ==
  {<<>>} \cup { <<r>> \o rest : r \in RowPool, rest \in SeqsUpTo(TailRowPool, MaxRows - 1) }

(***************************************************************************)
(* What the data store answers to client.get(...)                          *)
(***************************************************************************)
\* 2xx with a JSON list of rows
ReplyRows(rows) == [kind |-> "ok", status |-> 200, rows |-> rows]

\* a 4xx/5xx answer: response.raise_for_status() raises httpx.HTTPStatusError
ReplyStatus(status) == [kind |-> "http_error", status |-> status, rows |-> <<>>]

\* client.get raises (connect error, timeout): an httpx.RequestError
ReplyTransportError == [kind |-> "transport_error", status |-> 0, rows |-> <<>>]

NoReply == [kind |-> "none", status |-> 0, rows |-> <<>>]

DsReplies ==
  { ReplyRows(rows) : rows \in RowLists }
  \cup { ReplyStatus(s) : s \in {401, 404, 500} } \cup { ReplyTransportError }

(***************************************************************************)
(* endpoints.py: elevenlabs_webhook                                        *)
(***************************************************************************)
\* the denylist, mutated: the second number is lost
blacklisted_numbers_first_only ==
  { <<"+", "4", "1", "7", "9", "3", "0", "0", "0", "1", "6", "1">> }

blacklisted_numbers ==
  { <<"+", "4", "1", "7", "9", "3", "0", "0", "0", "1", "6", "1">>,
    <<"+", "4", "9", "1", "7", "8", "7", "1", "6", "9", "6", "2", "9">> }

\* the handler for any other exception, mutated: the exception is re-raised and
\* the framework answers 500
OnExceptionReraised == HTTPError(500, "Internal Server Error")

\* except httpx.HTTPStatusError
OnHTTPStatusError == WebhookResponse([error |-> Str("Failed to fetch configuration")])

\* except Exception
OnException == WebhookResponse([error |-> Str("Internal processing error")])

\* the emptiness test, mutated: the early return is lost
IsEmptyResultNever(locations_data) == FALSE

\* `not locations_data`
IsEmptyResult(locations_data) == locations_data = <<>>

\* the mode, mutated: the comparison is `>= 1`
ModeAtLeastOne(locations_data) ==
  IF Len(locations_data) >= 1 THEN "single-location" ELSE "multi-location"

\* "single-location" if len(locations_data) == 1 else "multi-location"
Mode(locations_data) ==
  IF Len(locations_data) = 1 THEN "single-location" ELSE "multi-location"

\* first_location = locations_data[0]
ConfigRow(locations_data) == locations_data[1]

\* d.get(key, {}) on a nested object
GetObj(obj, empty) == IF obj.t = "missing" THEN empty ELSE obj

\* lines 252-255 raise: IndexError on an empty list, AttributeError when
\* .get is called on None
MappingRaises(locations_data) ==
  \/ locations_data = <<>>
  \/ LET phone_number_config ==
           GetObj(ConfigRow(locations_data).phone_number, EmptyPhoneNumberConfig)
     IN  \/ phone_number_config.t # "obj"
         \/ GetObj(phone_number_config.aura_account, EmptyAccount).t # "obj"
         \/ GetObj(phone_number_config.agent_config, EmptyAgentConfig).t # "obj"

\* json.dumps of one value
JsonValue(leaf) ==
  IF leaf.t = "null" THEN <<"null">>
  ELSE IF leaf.t = "bool" THEN <<IF leaf.v = "True" THEN "true" ELSE "false">>
  ELSE <<"\"", leaf.v, "\"">>

JsonKey(k) == <<"\"", k, "\"", ":">>

\* the dict of one row when the row's other columns are carried along
LocationJsonWholeRow(loc) ==
  <<"{">>
  \o JsonKey("location_id") \o JsonValue(GetOr(loc.id, Null)) \o <<",">>
  \o JsonKey("location_name") \o JsonValue(GetOr(loc.location_name, Null)) \o <<",">>
  \o JsonKey("check_in_support_type")
     \o JsonValue(GetOr(loc.check_in_support_type, Str("not_specified"))) \o <<",">>
  \o JsonKey("website_url")
     \o JsonValue(GetOr(loc.website_url, Str("not_specified"))) \o <<",">>
  \o JsonKey("contact_email")
     \o JsonValue(GetOr(loc.contact_email, Str("not_specified"))) \o <<",">>
  \o JsonKey("closure_periods") \o JsonValue(GetOr(loc.closure_periods, Null))
  \o <<"}">>

\* the dict built for one row, as JSON text with separators (",", ":")
LocationJson(loc) ==
  <<"{">>
  \o JsonKey("location_id") \o JsonValue(GetOr(loc.id, Null)) \o <<",">>
  \o JsonKey("location_name") \o JsonValue(GetOr(loc.location_name, Null)) \o <<",">>
  \o JsonKey("check_in_support_type")
     \o JsonValue(GetOr(loc.check_in_support_type, Str("not_specified"))) \o <<",">>
  \o JsonKey("website_url")
     \o JsonValue(GetOr(loc.website_url, Str("not_specified"))) \o <<",">>
  \o JsonKey("contact_email")
     \o JsonValue(GetOr(loc.contact_email, Str("not_specified")))
  \o <<"}">>

\* _serialize_locations: the JSON text, one token per punctuation mark or string
_serialize_locations(locations_data) ==
  <<"[">>
  \o join(<<",">>, [i \in 1..Len(locations_data) |-> LocationJson(locations_data[i])])
  \o <<"]">>

\* lines 252-281, when they do not raise
BuildDynamicVariables(locations_data, caller_id) ==
  LET first_location == ConfigRow(locations_data)
      phone_number_config == GetObj(first_location.phone_number, EmptyPhoneNumberConfig)
      account == GetObj(phone_number_config.aura_account, EmptyAccount)
      agent_config == GetObj(phone_number_config.agent_config, EmptyAgentConfig)
      formatted_phone_number == _format_phone_number(caller_id)
      can_sms == _can_receive_sms(caller_id)
  IN  [host_name |-> GetOr(account.name, Str("")),
       test_account |-> Str(PyStr(GetOr(account.test_account, Bool(FALSE)))),
       mode |-> Str(Mode(locations_data)),
       hotel_category |-> GetOr(account.hotel_category, Str("")),
       preferred_currency |-> GetOr(account.preferred_currency, Str("EUR")),
       welcomeMessage |-> GetOr(agent_config.welcomeMessage, Str("")),
       agent_name |-> GetOr(agent_config.agentName, Str("")),
       formOfAddress |-> GetOr(agent_config.formOfAddress, Str("Formal")),
       formatted_user_number |-> Str(formatted_phone_number),
       last_two_digits |->
         Str(IF Len(formatted_phone_number) >= 2
               THEN Tail_n(formatted_phone_number, 2) ELSE <<>>),
       can_phone_number_receive_sms_details |->
         Str(IF can_sms THEN "User phone number CAN receive SMS"
                        ELSE "User phone number CANNOT receive SMS"),
       location_details |-> Str(_serialize_locations(locations_data))]

\* lines 239-294: what the handler does with the data store's answer; the
\* steps it runs and the response it returns
ProcessReply(reply, caller_id) ==
  IF reply.kind = "transport_error"
    THEN [steps |-> {}, response |-> OnException]
  ELSE IF reply.kind = "http_error"
    THEN [steps |-> {}, response |-> OnHTTPStatusError]
  ELSE LET locations_data == reply.rows
       IN  IF IsEmptyResult(locations_data)
             THEN [steps |-> {"empty"},
                   response |-> WebhookResponse(
                     [error |-> Str("Could not find client configuration")])]
           ELSE IF MappingRaises(locations_data)
             THEN [steps |-> {"mapping"}, response |-> OnException]
           ELSE [steps |-> {"mapping", "format_phone", "can_receive_sms", "serialize"},
                 response |-> WebhookResponse(
                   BuildDynamicVariables(locations_data, caller_id))]

(***************************************************************************)
(* The API serving one request at a time.                                  *)
(***************************************************************************)
Secret == "test-auth-token"

SecretValues == {None, "", Secret}

HeaderValues == {None, "", Secret, "wrong-token"}

Environments ==
  { [ELEVENLABS_WEBHOOK_AUTH |-> a, CUSTOM_AUTH |-> c, SUPABASE_URL |-> u, SUPABASE_KEY |-> k] :
      a \in SecretValues, c \in SecretValues,
      u \in {None, "", "https://test.supabase.co"}, k \in {None, "test-key"} }

Routes == {"/elevenlabs-webhook", "/custom-webhook"}

CallerIds ==
  { BlockedCH, BlockedDE, US_Example, DE_Mobile, DE_Landline, Anonymous, <<>>,
    <<"+", "4", "4", "2", "0", "7">> }

CalledNumbers == {"+498941434322"}

Requests ==
  { [route |-> r, auth |-> h, caller_id |-> c, called_number |-> n] :
      r \in Routes, h \in HeaderValues, c \in CallerIds, n \in CalledNumbers }

NoRequest == [route |-> "", auth |-> None, caller_id |-> <<>>, called_number |-> ""]

PhoneIdle ==
  /\ phone_number = <<>>
  /\ cleaned = <<>>
  /\ formatted = <<>>
  /\ sms = FALSE
  /\ pdone = {}

ApiIdle ==
  /\ pc = "idle"
  /\ req = NoRequest
  /\ supabase_config = NoConfig
  /\ steps = {}
  /\ dsLog = <<>>
  /\ dsReply = NoReply
  /\ response = NoResponse

\* no extract_user_async request is being served and nothing was sent
NoQRequest == [caller |-> "", text |-> <<>>]

NoService == [constructed |-> FALSE, queue_url |-> None]

Unset == [kind |-> "unset", v |-> <<>>]

NoQResponse == [status |-> 0, detail |-> "", request_id |-> <<>>]

QueueIdle ==
  /\ sqs_queue_url = None
  /\ qpc = "idle"
  /\ qreq = NoQRequest
  /\ queue_service = NoService
  /\ uuid_calls = 0
  /\ attempts = <<>>
  /\ sqs = <<>>
  /\ request_id = Unset
  /\ qresponse = NoQResponse

NoMessage == [request_id |-> <<>>, text |-> <<>>]

NoDecoded == [ok |-> FALSE, request_id |-> <<>>, text |-> <<>>, error |-> ""]

CodecIdle ==
  /\ queue_message = NoMessage
  /\ message_body = <<>>
  /\ decoded = NoDecoded
  /\ cdone = {}

\* a dict that has neither "request_id" nor "payload"
NoDirect == [request_id |-> [t |-> "missing", v |-> <<>>], text |-> [t |-> "missing", v |-> <<>>]]

NoEvent == [keys |-> {}, records |-> <<>>, direct |-> NoDirect]

NoWResponse == [statusCode |-> 0, results |-> <<>>]

\* the absence value of `User | None`
NoUser == [t |-> "null", name |-> "", age |-> 0, email |-> None]

NoXResponse == [status |-> 0, user |-> NoUser]

WorkerIdle ==
  /\ event = NoEvent
  /\ wpc = "idle"
  /\ bodies = <<>>
  /\ current = NoDecoded
  /\ results = <<>>
  /\ extractions = <<>>
  /\ wresponse = NoWResponse
  /\ xoutcome = ""
  /\ xresponse = NoXResponse

\* SupabaseReadRequest: limit is None or an int
NoLimit == [given |-> FALSE, v |-> 0]

NoReadRequest == [table |-> "", select |-> "", limit |-> NoLimit]

NoReadReply == [kind |-> "none", status |-> 0, json |-> "", rows |-> <<>>]

NoReadResponse == [status |-> 0, detail |-> "", data |-> <<>>]

ReadIdle ==
  /\ rpc = "idle"
  /\ rreq = NoReadRequest
  /\ rquery = <<>>
  /\ rreply = NoReadReply
  /\ rresponse = NoReadResponse

NoWorkflow == [id |-> "", name |-> ""]

NoArgs == [values |-> "", template |-> "", name |-> ""]

CliIdle ==
  /\ cpc = "idle"
  /\ cargs = NoArgs
  /\ n8n_server = {}
  /\ crequests = <<>>
  /\ existing_workflow = NoWorkflow
  /\ exit_code = -1

\* no request, command or invocation is under way
OthersIdle ==
  /\ ApiIdle
  /\ PhoneIdle
  /\ QueueIdle
  /\ CodecIdle
  /\ WorkerIdle
  /\ ReadIdle
  /\ CliIdle

Init ==
  /\ env \in Environments
  /\ OthersIdle

\* a request arrives; FastAPI starts to solve the route's dependencies in the
\* order of the handler's parameters
Receive ==
  /\ pc = "idle"
  /\ \E r \in Requests :
       /\ req' = r
       /\ pc' = IF r.route = "/elevenlabs-webhook" THEN "dep_supabase_config" ELSE "dep_custom"
  /\ UNCHANGED <<env, supabase_config, steps, dsLog, dsReply, response>>

\* elevenlabs_webhook, first dependency: supabase_config = Depends(get_supabase_config)
SolveSupabaseConfig ==
  /\ pc = "dep_supabase_config"
  /\ LET r == get_supabase_config(env)
     IN  IF r.raised
           THEN /\ response' = r.error
                /\ pc' = "done"
                /\ UNCHANGED supabase_config
           ELSE /\ supabase_config' = r.value
                /\ pc' = "dep_auth"
                /\ UNCHANGED response
  /\ UNCHANGED <<env, req, steps, dsLog, dsReply>>

\* elevenlabs_webhook, second dependency: auth = Depends(verify_webhook_auth)
SolveWebhookAuth ==
  /\ pc = "dep_auth"
  /\ LET r == verify_webhook_auth(req.auth, env)
     IN  IF r.raised
           THEN /\ response' = r.error
                /\ pc' = "done"
           ELSE /\ pc' = "handler"
                /\ UNCHANGED response
  /\ UNCHANGED <<env, req, supabase_config, steps, dsLog, dsReply>>

\* elevenlabs_webhook, lines 206-240: the blocklist check, then the lookup is
\* sent and the handler awaits the answer
WebhookStart ==
  /\ pc = "handler"
  /\ IF req.caller_id \in blacklisted_numbers
       THEN /\ steps' = {"body", "blocklist"}
            /\ response' = WebhookResponse([error |-> Str("Number blocked")])
            /\ pc' = "done"
            /\ UNCHANGED dsLog
       ELSE /\ steps' = {"body", "blocklist", "lookup"}
            /\ dsLog' = Append(dsLog,
                 [url |-> supabase_config[1], apikey |-> supabase_config[2],
                  table |-> "onboarding_data", filter |-> req.called_number])
            /\ pc' = "await_lookup"
            /\ UNCHANGED response
  /\ UNCHANGED <<env, req, supabase_config, dsReply>>

\* elevenlabs_webhook, lines 240-294: the data store answers and the handler
\* runs to its return
WebhookFinish ==
  /\ pc = "await_lookup"
  /\ \E reply \in DsReplies :
       LET r == ProcessReply(reply, req.caller_id)
       IN  /\ dsReply' = reply
           /\ steps' = steps \cup r.steps
           /\ response' = r.response
  /\ pc' = "done"
  /\ UNCHANGED <<env, req, supabase_config, dsLog>>

\* a route guarded by create_auth_dependency("CUSTOM_AUTH", "x-api-key"), as in
\* the factory's docstring: its only dependency, then its body
CustomWebhook ==
  /\ pc = "dep_custom"
  /\ LET r == verify_auth("CUSTOM_AUTH", req.auth, env)
     IN  IF r.raised
           THEN /\ response' = r.error
                /\ UNCHANGED steps
           ELSE /\ response' = [status |-> 200, detail |-> "",
                                dynamic_variables |-> NoVariables]
                /\ steps' = {"body"}
  /\ pc' = "done"
  /\ UNCHANGED <<env, req, supabase_config, dsLog, dsReply>>

\* the response is sent; nothing of the request is kept
Respond ==
  /\ pc = "done"
  /\ pc' = "idle"
  /\ req' = NoRequest
  /\ supabase_config' = NoConfig
  /\ steps' = {}
  /\ dsLog' = <<>>
  /\ dsReply' = NoReply
  /\ response' = NoResponse
  /\ UNCHANGED env

Next ==
  \/ Receive /\ UNCHANGED <<phone_vars, queue_vars, codec_vars, worker_vars, read_vars, cli_vars>>
  \/ SolveSupabaseConfig /\ UNCHANGED <<phone_vars, queue_vars, codec_vars, worker_vars, read_vars, cli_vars>>
  \/ SolveWebhookAuth /\ UNCHANGED <<phone_vars, queue_vars, codec_vars, worker_vars, read_vars, cli_vars>>
  \/ WebhookStart /\ UNCHANGED <<phone_vars, queue_vars, codec_vars, worker_vars, read_vars, cli_vars>>
  \/ WebhookFinish /\ UNCHANGED <<phone_vars, queue_vars, codec_vars, worker_vars, read_vars, cli_vars>>
  \/ CustomWebhook /\ UNCHANGED <<phone_vars, queue_vars, codec_vars, worker_vars, read_vars, cli_vars>>
  \/ Respond /\ UNCHANGED <<phone_vars, queue_vars, codec_vars, worker_vars, read_vars, cli_vars>>

Spec == Init /\ [][Next]_vars

(***************************************************************************)
(* The normalizer on its own: one input, each function applied once.       *)
(***************************************************************************)
InitPhone ==
  /\ env \in { e \in Environments : \A k \in DOMAIN e : e[k] = None }
  /\ ApiIdle
  /\ phone_number \in PhoneInputs
  /\ cleaned = <<>>
  /\ formatted = <<>>
  /\ sms = FALSE
  /\ pdone = {}
  /\ QueueIdle
  /\ CodecIdle
  /\ WorkerIdle
  /\ ReadIdle
  /\ CliIdle

\* _format_phone_number(phone_number)
FormatPhoneNumber ==
  /\ "format" \notin pdone
  /\ formatted' = _format_phone_number(phone_number)
  /\ cleaned' = IF IsSentinel(phone_number) THEN <<>> ELSE Clean(phone_number)
  /\ pdone' = pdone \cup {"format"}
  /\ UNCHANGED <<phone_number, sms>>

\* _can_receive_sms(phone_number)
CanReceiveSms ==
  /\ "sms" \notin pdone
  /\ sms' = _can_receive_sms(phone_number)
  /\ pdone' = pdone \cup {"sms"}
  /\ UNCHANGED <<phone_number, cleaned, formatted>>

NextPhone ==
  \/ FormatPhoneNumber /\ UNCHANGED <<api_vars, queue_vars, codec_vars, worker_vars, read_vars, cli_vars>>
  \/ CanReceiveSms /\ UNCHANGED <<api_vars, queue_vars, codec_vars, worker_vars, read_vars, cli_vars>>

SpecPhone == InitPhone /\ [][NextPhone]_vars

(***************************************************************************)
(* Properties of the webhook, stated for Spec.                              *)
(***************************************************************************)
WebhookCall == req.route = "/elevenlabs-webhook"

\* the two numbers of the static denylist
DenylistedCallers == {BlockedCH, BlockedDE}

\* the response is a 200 whose variable set is exactly {"error": message}
ErrorVariables(message) ==
  /\ response.status = 200
  /\ DOMAIN response.dynamic_variables = {"error"}
  /\ response.dynamic_variables["error"] = Str(message)

\* the environment variable that holds the secret of the request's route
SecretOfRoute ==
  IF WebhookCall THEN env["ELEVENLABS_WEBHOOK_AUTH"] ELSE env["CUSTOM_AUTH"]

\* C1: for every request to a route guarded by verify_webhook_auth or by a
\* dependency of create_auth_dependency, the handler body runs only when the
\* header equals the configured non-empty secret; otherwise the answer is 500
\* when the secret is unconfigured, else 401 when the header is missing or
\* empty, else 401 when it differs from the secret.
C1_AuthGate ==
  /\ "body" \in steps =>
       /\ SecretOfRoute \notin {None, ""}
       /\ req.auth = SecretOfRoute
  /\ pc = "done" =>
       IF SecretOfRoute \in {None, ""} THEN response.status = 500
       ELSE IF req.auth \in {None, ""} THEN response.status = 401
       ELSE IF req.auth # SecretOfRoute THEN response.status = 401
       ELSE TRUE

\* C2: for every authenticated webhook call whose caller_id is in the static
\* denylist, the resolver returns exactly {"error": "Number blocked"} and no
\* data-store request is issued for that call, whatever the data store holds.
C2_BlocklistBeforeLookup ==
  (WebhookCall /\ req.caller_id \in DenylistedCallers) =>
    /\ dsLog = <<>>
    /\ dsReply = NoReply
    /\ "lookup" \notin steps
    /\ "body" \in steps => (pc = "done" /\ ErrorVariables("Number blocked"))

C2_Witness ==
  /\ WebhookCall
  /\ pc = "done"
  /\ "body" \in steps
  /\ req.caller_id \in DenylistedCallers
  /\ ErrorVariables("Number blocked")

\* a nested object of the row that the mapping dereferences is JSON null
NullNested(row) ==
  \/ row.phone_number.t = "null"
  \/ /\ row.phone_number.t = "obj"
     /\ \/ row.phone_number.aura_account.t = "null"
        \/ row.phone_number.agent_config.t = "null"

\* the call ended at one of the resolver's failure steps
ResolverFailure ==
  \/ req.caller_id \in DenylistedCallers
  \/ dsReply.kind \in {"http_error", "transport_error"}
  \/ dsReply.kind = "ok" /\ dsReply.rows = <<>>
  \/ dsReply.kind = "ok" /\ dsReply.rows # <<>> /\ NullNested(dsReply.rows[1])

\* C3: every webhook call handled by the resolver ends with HTTP status 200,
\* whichever step it ends at; a failure (blocked caller, data-store HTTP error,
\* transport error, empty result, exception while mapping the row) is expressed
\* only by an "error" key in dynamic_variables.
C3_ResolverAlways200 ==
  (WebhookCall /\ "body" \in steps /\ pc = "done") =>
    /\ response.status = 200
    /\ ResolverFailure <=> "error" \in DOMAIN response.dynamic_variables

C3_Witness ==
  /\ WebhookCall
  /\ pc = "done"
  /\ dsReply.kind = "ok"
  /\ dsReply.rows # <<>>
  /\ dsReply.rows[1].phone_number.t = "null"
  /\ response.status = 200
  /\ "error" \in DOMAIN response.dynamic_variables

\* C4: whenever the webhook secret is configured, a webhook request with no auth
\* header or a wrong one is answered 401, whatever the rest of the server's
\* configuration (Supabase URL and key) is.
C4_AuthIndependentOfSupabaseConfig ==
  ( /\ WebhookCall
    /\ pc = "done"
    /\ env["ELEVENLABS_WEBHOOK_AUTH"] \notin {None, ""}
    /\ req.auth # env["ELEVENLABS_WEBHOOK_AUTH"] )
  => response.status = 401

MappingSteps == {"mapping", "format_phone", "can_receive_sms", "serialize"}

\* C5: an authenticated, non-blocked webhook call whose lookup succeeds with
\* zero rows returns exactly {"error": "Could not find client configuration"}
\* and runs no mapping step.
C5_EmptyResult ==
  (WebhookCall /\ pc = "done" /\ dsReply.kind = "ok" /\ dsReply.rows = <<>>) =>
    /\ ErrorVariables("Could not find client configuration")
    /\ steps \cap MappingSteps = {}

C5_Witness ==
  /\ WebhookCall
  /\ pc = "done"
  /\ req.caller_id \notin DenylistedCallers
  /\ Len(dsLog) = 1
  /\ dsReply.kind = "ok"
  /\ dsReply.rows = <<>>
  /\ ErrorVariables("Could not find client configuration")

\* the call ended with a variable set that carries no error
Resolved ==
  /\ WebhookCall
  /\ pc = "done"
  /\ response.status = 200
  /\ "error" \notin DOMAIN response.dynamic_variables

\* the value a variable takes from an object of the row: the field when the
\* object and the field are there, else the default
FieldOr(obj, field, default) ==
  IF obj.t = "obj" /\ obj[field].t # "missing" THEN obj[field] ELSE default

\* the account object and the agent configuration object of a row
AccountOf(row) ==
  IF row.phone_number.t = "obj" THEN row.phone_number.aura_account
  ELSE [EmptyAccount EXCEPT !.t = "missing"]

AgentConfigOf(row) ==
  IF row.phone_number.t = "obj" THEN row.phone_number.agent_config
  ELSE [EmptyAgentConfig EXCEPT !.t = "missing"]

\* the account and agent variables as read from one row
ConfigVariablesOf(row) ==
  [host_name |-> FieldOr(AccountOf(row), "name", Str("")),
   test_account |->
     LET x == FieldOr(AccountOf(row), "test_account", Bool(FALSE))
     IN  Str(IF x.t = "null" THEN "None" ELSE x.v),
   hotel_category |-> FieldOr(AccountOf(row), "hotel_category", Str("")),
   preferred_currency |-> FieldOr(AccountOf(row), "preferred_currency", Str("EUR")),
   welcomeMessage |-> FieldOr(AgentConfigOf(row), "welcomeMessage", Str("")),
   agent_name |-> FieldOr(AgentConfigOf(row), "agentName", Str("")),
   formOfAddress |-> FieldOr(AgentConfigOf(row), "formOfAddress", Str("Formal"))]

\* C6: for every successful resolution over n >= 1 rows, mode is
\* "single-location" iff n = 1 and "multi-location" iff n > 1, and the account
\* and agent variables are those of the first row.
C6_ModeAndFirstRow ==
  Resolved =>
    LET n == Len(dsReply.rows)
        dv == response.dynamic_variables
    IN  /\ n >= 1
        /\ dv.mode = Str("single-location") <=> n = 1
        /\ dv.mode = Str("multi-location") <=> n > 1
        /\ \A k \in DOMAIN ConfigVariablesOf(dsReply.rows[1]) :
             dv[k] = ConfigVariablesOf(dsReply.rows[1])[k]

C6_Witness ==
  /\ Resolved
  /\ Len(dsReply.rows) > 1
  /\ response.dynamic_variables.mode = Str("multi-location")
  /\ ConfigVariablesOf(dsReply.rows[2]).host_name
       # ConfigVariablesOf(dsReply.rows[1]).host_name
  /\ response.dynamic_variables.host_name = Str("Hotel A")

(***************************************************************************)
(* Properties of the normalizer, stated for SpecPhone.                     *)
(***************************************************************************)
Formatted == "format" \in pdone

SmsDecided == "sms" \in pdone

\* the characters the cleaning keeps: digits and '+'
KeptChars == AsciiDigits \cup NonAsciiDigits \cup {"+"}

\* C7: for the inputs "" and "Anonymous" the formatter returns "Anonymous" and
\* the SMS predicate returns false; the sentinel test is made on the raw input,
\* before any cleaning: an input that is no sentinel but has nothing left after
\* cleaning is not treated as one.
C7_Sentinel ==
  /\ phone_number \in {<<>>, Anonymous} =>
       /\ Formatted => formatted = Anonymous
       /\ SmsDecided => sms = FALSE
  /\ ( /\ phone_number \notin {<<>>, Anonymous}
       /\ \A i \in DOMAIN phone_number : phone_number[i] \notin KeptChars ) =>
       /\ Formatted => formatted = phone_number
       /\ SmsDecided => sms = TRUE

C7_Witness ==
  /\ phone_number = <<>>
  /\ Formatted
  /\ SmsDecided
  /\ formatted = Anonymous
  /\ sms = FALSE

\* C8 as claimed: the cleaned string holds only digits plus at most one '+',
\* which can only be its first character; a '+' elsewhere in the input is
\* stripped.
C8_OnlyLeadingPlusKept ==
  (Formatted /\ phone_number \notin {<<>>, Anonymous}) =>
    /\ \A i \in DOMAIN cleaned : isdigit(cleaned[i]) \/ (cleaned[i] = "+" /\ i = 1)
    /\ Len(cleaned) =
         Cardinality({ j \in DOMAIN phone_number :
                         isdigit(phone_number[j]) \/ (phone_number[j] = "+" /\ j = 1) })

\* positions of the input whose character is a digit or a '+'
KeptPositions == { i \in DOMAIN phone_number : phone_number[i] \in KeptChars }

\* C8 as amended: the cleaned string is the input's digits and '+' characters,
\* every one of them and in the input's order (a '+' is kept wherever it
\* stands); every other character is stripped.
C8_DigitsAndEveryPlusKept ==
  (Formatted /\ phone_number \notin {<<>>, Anonymous}) =>
    /\ Len(cleaned) = Cardinality(KeptPositions)
    /\ \A i \in KeptPositions :
         cleaned[Cardinality({ j \in KeptPositions : j <= i })] = phone_number[i]

C8_Witness ==
  /\ Formatted
  /\ Len(cleaned) < Len(phone_number)
  /\ \E i \in 2..Len(cleaned) : cleaned[i] = "+"

\* C9: when the cleaned form starts with "+1" and has exactly 12 characters,
\* "+1" d1..d10, the formatter returns "+1 - d1d2d3 - d4d5d6 - d7d8d9d10".
C9_USFormat ==
  (Formatted /\ Len(cleaned) = 12 /\ cleaned[1] = "+" /\ cleaned[2] = "1") =>
    formatted = << "+", "1", " ", "-", " ", cleaned[3], cleaned[4], cleaned[5],
                   " ", "-", " ", cleaned[6], cleaned[7], cleaned[8],
                   " ", "-", " ", cleaned[9], cleaned[10], cleaned[11], cleaned[12] >>

C9_Witness ==
  /\ Formatted
  /\ phone_number = US_Example
  /\ formatted = << "+", "1", " ", "-", " ", "9", "0", "9", " ", "-", " ",
                    "3", "5", "8", " ", "-", " ", "6", "5", "2", "0" >>

\* C10: when the cleaned form starts with "+49", the formatter returns "+49 - "
\* followed by the remaining characters in their order, split left to right
\* into groups of 3 (only the last may be shorter) joined with " - ".
C10_DEFormat ==
  (Formatted /\ Len(cleaned) >= 3 /\ SubSeq(cleaned, 1, 3) = <<"+", "4", "9">>) =>
    LET n == Len(cleaned) - 3
        body == SubSeq(formatted, 7, Len(formatted))
    IN  /\ Len(formatted) >= 6
        /\ SubSeq(formatted, 1, 6) = <<"+", "4", "9", " ", "-", " ">>
        /\ Len(body) = IF n = 0 THEN 0 ELSE n + 3 * ((n - 1) \div 3)
        /\ \A j \in 1..Len(body) :
             LET group == (j - 1) \div 6
                 at == (j - 1) % 6
             IN  IF at < 3 THEN body[j] = cleaned[3 + 3 * group + at + 1]
                 ELSE body[j] = <<" ", "-", " ">>[at - 2]

C10_Witness ==
  /\ Formatted
  /\ phone_number = DE_Example
  /\ formatted = << "+", "4", "9", " ", "-", " ", "1", "2", "3", " ", "-", " ",
                    "4", "5", "6", " ", "-", " ", "7", "8", "9", " ", "-", " ", "0" >>

(***************************************************************************)
(* The wire form of a queue message.  A Python str is a sequence of        *)
(* tokens: one-character strings, "LF" for the newline character, "u00e9"  *)
(* for a character outside ASCII, and the words request_id, payload, text  *)
(* and uuid-k, each standing for its run of letters, digits and dashes.    *)
(* A message body is the sequence of the characters of the JSON text.      *)
(***************************************************************************)
\* longest request text
MaxTextLen == 3

TextChars == {"a", "n", "\"", "\\", "LF", "u00e9"}

Texts == SeqsUpTo(TextChars, MaxTextLen)

\* str(uuid.uuid4()) of the k-th call of uuid4: a version-4 UUID has 122
\* random bits; two calls are taken never to return the same value
Uuid4(k) == <<"uuid-" \o ToString(k)>>

\* the escaping, mutated: a backslash is written as it is
EscapeQuoteOnly(c) ==
  IF c = "\"" THEN <<"\\", "\"">>
  ELSE IF c = "LF" THEN <<"\\", "n">>
  ELSE <<c>>

\* model_dump_json writes a str as a JSON string: quotation mark, reverse
\* solidus and control characters are escaped, everything else is written raw
Escape(c) ==
  IF c = "\"" THEN <<"\\", "\"">>
  ELSE IF c = "\\" THEN <<"\\", "\\">>
  ELSE IF c = "LF" THEN <<"\\", "n">>
  ELSE <<c>>

RECURSIVE EscapeAll(_)
EscapeAll(s) == IF s = <<>> THEN <<>> ELSE Escape(Head(s)) \o EscapeAll(Tail(s))

JsonString(s) == <<"\"">> \o EscapeAll(s) \o <<"\"">>

\* class QueueMessage(BaseModel): request_id: str; payload: ExtractUserRequest
\* class ExtractUserRequest(BaseModel): text: str
QueueMessage(rid, text) == [request_id |-> rid, text |-> text]

\* message.model_dump_json(): compact, fields in declaration order
model_dump_json(m) ==
  <<"{">> \o JsonString(<<"request_id">>) \o <<":">> \o JsonString(m.request_id)
    \o <<",">> \o JsonString(<<"payload">>) \o <<":", "{">>
    \o JsonString(<<"text">>) \o <<":">> \o JsonString(m.text) \o <<"}", "}">>

\* JSON values as the parser builds them
JStr(chars) == [t |-> "str", v |-> chars]

JObj(members) == [t |-> "obj", v |-> members]

JNum(token) == [t |-> "num", v |-> <<token>>]

JArr(elements) == [t |-> "arr", v |-> elements]

JNull == [t |-> "null", v |-> <<>>]

JMissing == [t |-> "missing", v |-> <<>>]

Parsed(value, next) == [ok |-> TRUE, value |-> value, next |-> next]

ParseError == [ok |-> FALSE, value |-> JNull, next |-> 0]

RECURSIVE SkipWs(_, _)
SkipWs(b, i) == IF i <= Len(b) /\ b[i] = " " THEN SkipWs(b, i + 1) ELSE i

\* the characters of a JSON string, read from position i (just after the
\* opening quotation mark) up to the closing one
RECURSIVE ScanString(_, _, _)
ScanString(b, i, acc) ==
  IF i > Len(b) THEN ParseError
  ELSE IF b[i] = "\"" THEN Parsed(JStr(acc), i + 1)
  ELSE IF b[i] = "LF" THEN ParseError
  ELSE IF b[i] = "\\"
       THEN IF i + 1 > Len(b) THEN ParseError
            ELSE IF b[i + 1] = "\"" THEN ScanString(b, i + 2, Append(acc, "\""))
            ELSE IF b[i + 1] = "\\" THEN ScanString(b, i + 2, Append(acc, "\\"))
            ELSE IF b[i + 1] = "n" THEN ScanString(b, i + 2, Append(acc, "LF"))
            ELSE IF b[i + 1] = "u" /\ i + 2 <= Len(b) /\ b[i + 2] = "00e9"
                 THEN ScanString(b, i + 3, Append(acc, "u00e9"))
            ELSE ParseError
  ELSE ScanString(b, i + 1, Append(acc, b[i]))

RECURSIVE ParseValue(_, _)
RECURSIVE ParseElements(_, _, _)
\* the elements of a JSON array, read from position i (just after "[" or ",")
ParseElements(b, i, acc) ==
  LET k == SkipWs(b, i)
  IN  IF k > Len(b) THEN ParseError
      ELSE IF b[k] = "]" /\ acc = <<>> THEN Parsed(JArr(acc), k + 1)
      ELSE LET val == ParseValue(b, k)
           IN  IF ~val.ok THEN ParseError
               ELSE LET e == SkipWs(b, val.next)
                        m == Append(acc, val.value)
                    IN  IF e > Len(b) THEN ParseError
                        ELSE IF b[e] = "]" THEN Parsed(JArr(m), e + 1)
                        ELSE IF b[e] = "," THEN ParseElements(b, e + 1, m)
                        ELSE ParseError

RECURSIVE ParseMembers(_, _, _)
\* the members of a JSON object, read from position i (just after "{" or ",")
ParseMembers(b, i, acc) ==
  LET k == SkipWs(b, i)
  IN  IF k > Len(b) THEN ParseError
      ELSE IF b[k] = "}" /\ acc = <<>> THEN Parsed(JObj(acc), k + 1)
      ELSE IF b[k] # "\"" THEN ParseError
      ELSE LET key == ScanString(b, k + 1, <<>>)
           IN  IF ~key.ok THEN ParseError
               ELSE LET c == SkipWs(b, key.next)
                    IN  IF c > Len(b) \/ b[c] # ":" THEN ParseError
                        ELSE LET val == ParseValue(b, c + 1)
                             IN  IF ~val.ok THEN ParseError
                                 ELSE LET e == SkipWs(b, val.next)
                                          m == Append(acc, [key |-> key.value.v, value |-> val.value])
                                      IN  IF e > Len(b) THEN ParseError
                                          ELSE IF b[e] = "}" THEN Parsed(JObj(m), e + 1)
                                          ELSE IF b[e] = "," THEN ParseMembers(b, e + 1, m)
                                          ELSE ParseError

ParseValue(b, i) ==
  LET k == SkipWs(b, i)
  IN  IF k > Len(b) THEN ParseError
      ELSE IF b[k] = "\"" THEN ScanString(b, k + 1, <<>>)
      ELSE IF b[k] = "{" THEN ParseMembers(b, k + 1, <<>>)
      ELSE IF b[k] = "[" THEN ParseElements(b, k + 1, <<>>)
      ELSE IF b[k] = "null" THEN Parsed(JNull, k + 1)
      ELSE IF b[k] \in {"5"} THEN Parsed(JNum(b[k]), k + 1)
      ELSE ParseError

\* the value of a member of a parsed object; of two members with one key the
\* later one counts
RECURSIVE Member(_, _, _)
Member(members, key, i) ==
  IF i = 0 THEN JMissing
  ELSE IF members[i].key = key THEN members[i].value
  ELSE Member(members, key, i - 1)

Field(obj, key) == Member(obj.v, <<key>>, Len(obj.v))

Valid(rid, text) == [ok |-> TRUE, request_id |-> rid, text |-> text, error |-> ""]

ValidationError == [ok |-> FALSE, request_id |-> <<>>, text |-> <<>>, error |-> "ValidationError"]

\* QueueMessage.model_validate_json(message_body): the text is parsed as JSON,
\* request_id must be a string, payload an object whose text is a string;
\* members the model does not declare are ignored
model_validate_json(b) ==
  LET p == ParseValue(b, 1)
  IN  IF ~p.ok \/ SkipWs(b, p.next) # Len(b) + 1 THEN ValidationError
      ELSE IF p.value.t # "obj" THEN ValidationError
      ELSE LET rid == Field(p.value, "request_id")
               payload == Field(p.value, "payload")
           IN  IF rid.t # "str" \/ payload.t # "obj" THEN ValidationError
               ELSE LET text == Field(payload, "text")
                    IN  IF text.t # "str" THEN ValidationError
                        ELSE Valid(rid.v, text.v)

(***************************************************************************)
(* Specification of the wire form alone: a message is serialized as        *)
(* send_message does and read back as process_message does.                *)
(***************************************************************************)
InitCodec ==
  /\ env \in { e \in Environments : \A k \in DOMAIN e : e[k] = None }
  /\ ApiIdle
  /\ PhoneIdle
  /\ QueueIdle
  /\ WorkerIdle
  /\ ReadIdle
  /\ CliIdle
  /\ queue_message \in { QueueMessage(Uuid4(1), t) : t \in Texts }
  /\ message_body = <<>>
  /\ decoded = NoDecoded
  /\ cdone = {}

\* MessageBody=message.model_dump_json()
ModelDumpJson ==
  /\ "dump" \notin cdone
  /\ message_body' = model_dump_json(queue_message)
  /\ cdone' = cdone \cup {"dump"}
  /\ UNCHANGED <<queue_message, decoded>>

\* queue_message = QueueMessage.model_validate_json(message_body)
ModelValidateJson ==
  /\ "dump" \in cdone
  /\ "validate" \notin cdone
  /\ decoded' = model_validate_json(message_body)
  /\ cdone' = cdone \cup {"validate"}
  /\ UNCHANGED <<queue_message, message_body>>

NextCodec ==
  \/ ModelDumpJson /\ UNCHANGED <<api_vars, phone_vars, queue_vars, worker_vars, read_vars, cli_vars>>
  \/ ModelValidateJson /\ UNCHANGED <<api_vars, phone_vars, queue_vars, worker_vars, read_vars, cli_vars>>

SpecCodec == InitCodec /\ [][NextCodec]_vars

(***************************************************************************)
(* The queue dispatcher: get_queue_service, QueueService.send_message and  *)
(* the extract_user_async handlers of endpoints.py and examples.py.        *)
(***************************************************************************)
\* most executions of the body of send_message in one run
MaxCalls == 3

QueueUrl == "https://sqs.us-east-1.amazonaws.com/123456789012/test-queue"

\* sqs_queue_url: str | None = None
QueueUrls == {None, "", QueueUrl}

QueueTexts == {<<"a">>, <<"n", "\"">>}

\* who calls send_message: the two handlers call it as a plain function; an
\* awaiting caller runs the coroutine to its end
Handlers == {"endpoints.extract_user_async", "examples.extract_user_async"}

Callers == Handlers \cup {"await"}

\* what the caller of send_message holds
PyStrValue(chars) == [kind |-> "str", v |-> chars]

PyNone == [kind |-> "none", v |-> <<>>]

Coroutine == [kind |-> "coroutine", v |-> <<>>]

\* Python truth of a value: None and the empty str are false, every other
\* object, a coroutine object too, is true
Truthy(x) == ~(x.kind = "none" \/ (x.kind = "str" /\ x.v = <<>>))

QHTTPError(status, detail) == [status |-> status, detail |-> detail, request_id |-> <<>>]

QReturned(value) == [raised |-> FALSE, value |-> value, error |-> NoQResponse]

QRaised(error) == [raised |-> TRUE, value |-> NoService, error |-> error]

\* QueueService(queue_url=...)
QueueService(queue_url) == [constructed |-> TRUE, queue_url |-> queue_url]

\* the dependency, mutated: the service is built whatever the URL is
get_queue_service_unguarded(url) == QReturned(QueueService(url))

get_queue_service(url) ==
  IF Falsy(url)
    THEN QRaised(QHTTPError(500, "SQS queue URL not configured"))
    ELSE QReturned(QueueService(url))

\* the identifier, mutated: generated once and kept
NewRequestIdOnce(calls) == Uuid4(1)

\* request_id = str(uuid.uuid4()), after `calls` earlier calls of uuid4
NewRequestId(calls) == Uuid4(calls + 1)

\* the body of send_message, run to its end; `raises` says whether
\* sqs_client.send_message raised
send_message(self, text, calls, raises) ==
  LET rid == NewRequestId(calls)
      m == QueueMessage(rid, text)
  IN  [ attempt |-> [QueueUrl |-> self.queue_url, MessageBody |-> model_dump_json(m),
                     request_id |-> rid, raised |-> raises],
        result |-> IF raises THEN PyNone ELSE PyStrValue(rid) ]

\* lines 118-124 of extract_user_async, given the value bound to request_id
ExtractUserAsyncResult(rid) ==
  IF ~Truthy(rid) THEN QHTTPError(500, "Failed to send message to queue")
  ELSE IF rid.kind = "str" THEN [status |-> 200, detail |-> "", request_id |-> rid.v]
  ELSE QHTTPError(500, "Internal Server Error")

InitQueue ==
  /\ env \in { e \in Environments : \A k \in DOMAIN e : e[k] = None }
  /\ ApiIdle
  /\ PhoneIdle
  /\ CodecIdle
  /\ WorkerIdle
  /\ ReadIdle
  /\ CliIdle
  /\ sqs_queue_url \in QueueUrls
  /\ qpc = "idle"
  /\ qreq = NoQRequest
  /\ queue_service = NoService
  /\ uuid_calls = 0
  /\ attempts = <<>>
  /\ sqs = <<>>
  /\ request_id = Unset
  /\ qresponse = NoQResponse

\* a caller turns up with a request text
QReceive ==
  /\ qpc = "idle"
  /\ \E c \in Callers, t \in QueueTexts :
       /\ c = "await" => uuid_calls < MaxCalls
       /\ qreq' = [caller |-> c, text |-> t]
  /\ qpc' = "dep_queue_service"
  /\ UNCHANGED <<sqs_queue_url, queue_service, uuid_calls, attempts, sqs, request_id, qresponse>>

\* queue_service: QueueService = Depends(get_queue_service)
SolveQueueService ==
  /\ qpc = "dep_queue_service"
  /\ LET r == get_queue_service(sqs_queue_url)
     IN  IF r.raised
           THEN /\ qresponse' = r.error
                /\ qpc' = "done"
                /\ UNCHANGED queue_service
           ELSE /\ queue_service' = r.value
                /\ qpc' = "handler"
                /\ UNCHANGED qresponse
  /\ UNCHANGED <<sqs_queue_url, qreq, uuid_calls, attempts, sqs, request_id>>

\* request_id = queue_service.send_message(request): send_message is declared
\* `async def`, so the call builds a coroutine object and runs none of the body
CallSendMessage ==
  /\ qpc = "handler"
  /\ qreq.caller \in Handlers
  /\ request_id' = Coroutine
  /\ qpc' = "called"
  /\ UNCHANGED <<sqs_queue_url, qreq, queue_service, uuid_calls, attempts, sqs, qresponse>>

\* the try block, mutated: a submission that raised is made again
SubmissionsRetried(attempt) == IF attempt.raised THEN <<attempt, attempt>> ELSE <<attempt>>

\* the calls of sqs_client.send_message in one execution of the body: the try
\* block holds one call and no loop
Submissions(attempt) == <<attempt>>

\* request_id = await queue_service.send_message(request): the body runs
AwaitSendMessage ==
  /\ qpc = "handler"
  /\ qreq.caller = "await"
  /\ \E raises \in BOOLEAN :
       LET r == send_message(queue_service, qreq.text, uuid_calls, raises)
       IN  /\ attempts' = attempts \o Submissions(r.attempt)
           /\ sqs' = IF raises THEN sqs ELSE Append(sqs, r.attempt.MessageBody)
           /\ request_id' = r.result
  /\ uuid_calls' = uuid_calls + 1
  /\ qpc' = "returned"
  /\ UNCHANGED <<sqs_queue_url, qreq, queue_service, qresponse>>

\* the rest of extract_user_async; the coroutine is dropped unawaited
ExtractUserAsyncFinish ==
  /\ qpc = "called"
  /\ qresponse' = ExtractUserAsyncResult(request_id)
  /\ qpc' = "done"
  /\ UNCHANGED <<sqs_queue_url, qreq, queue_service, uuid_calls, attempts, sqs, request_id>>

\* the request is over; the queue and the uuid source live on
QRespond ==
  /\ qpc \in {"done", "returned"}
  /\ qpc' = "idle"
  /\ qreq' = NoQRequest
  /\ queue_service' = NoService
  /\ request_id' = Unset
  /\ qresponse' = NoQResponse
  /\ UNCHANGED <<sqs_queue_url, uuid_calls, attempts, sqs>>

NextQueue ==
  \/ QReceive /\ UNCHANGED <<api_vars, phone_vars, codec_vars, worker_vars, read_vars, cli_vars>>
  \/ SolveQueueService /\ UNCHANGED <<api_vars, phone_vars, codec_vars, worker_vars, read_vars, cli_vars>>
  \/ CallSendMessage /\ UNCHANGED <<api_vars, phone_vars, codec_vars, worker_vars, read_vars, cli_vars>>
  \/ AwaitSendMessage /\ UNCHANGED <<api_vars, phone_vars, codec_vars, worker_vars, read_vars, cli_vars>>
  \/ ExtractUserAsyncFinish /\ UNCHANGED <<api_vars, phone_vars, codec_vars, worker_vars, read_vars, cli_vars>>
  \/ QRespond /\ UNCHANGED <<api_vars, phone_vars, codec_vars, worker_vars, read_vars, cli_vars>>

SpecQueue == InitQueue /\ [][NextQueue]_vars

(***************************************************************************)
(* The worker: lambda_handler, process_message and the Processor; and the  *)
(* POST /extract-user handler, which makes the same provider call.         *)
(***************************************************************************)
\* most records in one queue-delivery event
MaxRecords == 2

\* User(name=..., age=..., email=...)
User(name, age, email) == [t |-> "user", name |-> name, age |-> age, email |-> email]

Alice == User("Alice", 30, "alice@example.com")

\* what client.chat.completions.create does: it returns a User, returns None,
\* or raises
ProviderOutcomes == {"user", "none", "raises"}

ProviderValue(outcome) == IF outcome = "user" THEN Alice ELSE NoUser

\* the Processor, mutated: the provider's error is raised again
process_extract_user_request_reraises(outcome) ==
  [raised |-> outcome = "raises", value |-> ProviderValue(outcome)]

\* try: response = client.chat.completions.create(...); return response
\* except Exception: return None
process_extract_user_request(outcome) ==
  [raised |-> FALSE, value |-> IF outcome = "raises" THEN NoUser ELSE ProviderValue(outcome)]

\* extract_user of endpoints.py and examples.py: the provider call stands
\* in the handler body with no try around it
extract_user(outcome) ==
  [raised |-> outcome = "raises", value |-> ProviderValue(outcome)]

\* the per-message records of process_message
SuccessRecord(rid, result) == [request_id |-> rid, result |-> result, success |-> TRUE]

ErrorRecord(e) == [error |-> e, success |-> FALSE]

\* json.dumps writes a str with the characters outside ASCII escaped too
EscapeAscii(c) == IF c = "u00e9" THEN <<"\\", "u", "00e9">> ELSE Escape(c)

RECURSIVE EscapeAsciiAll(_)
EscapeAsciiAll(s) == IF s = <<>> THEN <<>> ELSE EscapeAscii(Head(s)) \o EscapeAsciiAll(Tail(s))

DumpLeaf(leaf) ==
  IF leaf.t = "str" THEN <<"\"">> \o EscapeAsciiAll(leaf.v) \o <<"\"">>
  ELSE IF leaf.t = "null" THEN <<"null">>
  ELSE leaf.v

\* records of a queue-delivery event
Record(b) == [has_body |-> TRUE, body |-> b]

NoBodyRecord == [has_body |-> FALSE, body |-> <<>>]

GoodBody1 == model_dump_json(QueueMessage(Uuid4(1), <<"a">>))

GoodBody2 == model_dump_json(QueueMessage(Uuid4(2), <<"\\", "n", "\"">>))

BadJsonBody == <<"{", "\"">>

NoPayloadBody == <<"{">> \o JsonString(<<"request_id">>) \o <<":">> \o JsonString(Uuid4(3)) \o <<"}">>

RecordPool == {Record(GoodBody1), Record(GoodBody2), Record(BadJsonBody), Record(NoPayloadBody), NoBodyRecord}

Direct(rid, text) == [request_id |-> rid, text |-> text]

DirectPool ==
  { Direct(JStr(Uuid4(1)), JStr(<<"a", "u00e9">>)),
    Direct(JStr(Uuid4(2)), JMissing),
    Direct(JNum("5"), JStr(<<"a">>)) }

\* an event: its top-level keys among request_id, payload and Records, the
\* values of request_id and of payload's text, and the list under Records
Event(keys, d, records) == [keys |-> keys, records |-> records, direct |-> d]

SqsEvent(records) == Event({"Records"}, NoDirect, records)

DirectEvent(d) == Event({"request_id", "payload"}, d, <<>>)

\* events that are neither a plain batch nor a plain direct invocation
OtherEvents ==
  { Event({}, NoDirect, <<>>),
    Event({"request_id"}, Direct(JStr(Uuid4(1)), JMissing), <<>>),
    Event({"payload"}, Direct(JMissing, JStr(<<"a">>)), <<>>),
    Event({"request_id", "Records"}, Direct(JStr(Uuid4(1)), JMissing), <<Record(GoodBody2)>>),
    Event({"payload", "Records"}, Direct(JMissing, JStr(<<"a">>)), <<NoBodyRecord>>),
    Event({"request_id", "payload", "Records"}, Direct(JStr(Uuid4(1)), JStr(<<"a">>)), <<>>),
    Event({"request_id", "payload", "Records"}, Direct(JStr(Uuid4(1)), JStr(<<"a">>)),
          <<Record(GoodBody2), NoBodyRecord>>) }

Events ==
  { SqsEvent(rs) : rs \in SeqsUpTo(RecordPool, MaxRecords) }
    \cup { DirectEvent(d) : d \in DirectPool }
    \cup OtherEvents

\* json.dumps of one record of the event
RecordJson(record) ==
  IF record.has_body
    THEN <<"{">> \o JsonString(<<"body">>) \o <<":", " ", "\"">>
           \o EscapeAsciiAll(record.body) \o <<"\"", "}">>
    ELSE <<"{", "}">>

\* json.dumps(event) of an event that has request_id and payload: ", " and
\* ": " as separators, the Records of the event included
json_dumps(e) ==
  <<"{">> \o JsonString(<<"request_id">>) \o <<":", " ">> \o DumpLeaf(e.direct.request_id)
    \o <<",", " ">> \o JsonString(<<"payload">>) \o <<":", " ", "{">>
    \o (IF e.direct.text.t = "missing" THEN <<>>
        ELSE JsonString(<<"text">>) \o <<":", " ">> \o DumpLeaf(e.direct.text))
    \o <<"}">>
    \o (IF "Records" \in e.keys
          THEN <<",", " ">> \o JsonString(<<"Records">>) \o <<":", " ", "[">>
                 \o join(<<",", " ">>, [i \in 1..Len(e.records) |-> RecordJson(e.records[i])])
                 \o <<"]">>
          ELSE <<>>)
    \o <<"}">>

\* the shape test, mutated: one of the two keys is enough
IsDirectInvocationEitherKey(e) == "request_id" \in e.keys \/ "payload" \in e.keys

\* "request_id" in event and "payload" in event
IsDirectInvocation(e) == "request_id" \in e.keys /\ "payload" \in e.keys

\* event.get("Records", [])
RecordsOf(e) == IF "Records" \in e.keys THEN e.records ELSE <<>>

\* message_body = record.get("body", "{}")
BodyOf(record) == IF record.has_body THEN record.body ELSE <<"{", "}">>

RECURSIVE BodiesOf(_)
BodiesOf(records) ==
  IF records = <<>> THEN <<>> ELSE <<BodyOf(Head(records))>> \o BodiesOf(Tail(records))

RECURSIVE WithoutRepeats(_, _)
WithoutRepeats(todo, kept) ==
  IF todo = <<>> THEN kept
  ELSE IF \E k \in 1..Len(kept) : kept[k] = Head(todo) THEN WithoutRepeats(Tail(todo), kept)
  ELSE WithoutRepeats(Tail(todo), Append(kept, Head(todo)))

\* the bodies, mutated: a body seen earlier in the batch is skipped
MessageBodiesOnce(e) ==
  IF IsDirectInvocation(e) THEN <<json_dumps(e)>> ELSE WithoutRepeats(BodiesOf(RecordsOf(e)), <<>>)

\* the message bodies lambda_handler goes through, in order
MessageBodies(e) ==
  IF IsDirectInvocation(e) THEN <<json_dumps(e)>> ELSE BodiesOf(RecordsOf(e))

\* the loop, mutated: it stops at the first message that failed
AdvanceUntilFailure(todo, record) ==
  IF record.success THEN Tail(todo) ELSE <<>>

\* for record in event.get("Records", []): the next record, whatever the
\* record of this one is
Advance(todo, record) == Tail(todo)

\* log entries: the provider call of message i starts, ends, or is not made
\* because an error was raised before it
Started(i) == [ev |-> "start", i |-> i, outcome |-> ""]

Ended(i, outcome) == [ev |-> "end", i |-> i, outcome |-> outcome]

Failed(i, e) == [ev |-> "error", i |-> i, outcome |-> e]

InitWorker ==
  /\ env \in { e \in Environments : \A k \in DOMAIN e : e[k] = None }
  /\ ApiIdle
  /\ PhoneIdle
  /\ QueueIdle
  /\ CodecIdle
  /\ WorkerIdle
  /\ ReadIdle
  /\ CliIdle

\* lambda_handler(event, context) up to the first message
LambdaStart ==
  /\ wpc = "idle"
  /\ xoutcome = ""
  /\ \E e \in Events :
       /\ event' = e
       /\ bodies' = MessageBodies(e)
  /\ results' = <<>>
  /\ extractions' = <<>>
  /\ wpc' = "loop"
  /\ UNCHANGED <<current, wresponse, xoutcome, xresponse>>

\* asyncio.run(process_message(message_body)) up to the provider call:
\* model_validate_json, then the Processor as far as
\* client.chat.completions.create
ProcessMessageStart ==
  /\ wpc = "loop"
  /\ bodies # <<>>
  /\ LET i == Len(results) + 1
         m == model_validate_json(Head(bodies))
     IN  IF ~m.ok
           THEN /\ results' = Append(results, ErrorRecord(m.error))
                /\ bodies' = Advance(bodies, ErrorRecord(m.error))
                /\ extractions' = Append(extractions, Failed(i, m.error))
                /\ UNCHANGED <<current, wpc>>
           ELSE /\ current' = m
                /\ extractions' = Append(extractions, Started(i))
                /\ wpc' = "provider"
                /\ UNCHANGED <<results, bodies>>
  /\ UNCHANGED <<event, wresponse, xoutcome, xresponse>>

\* the provider call comes back; process_message builds the record
ProcessMessageFinish ==
  /\ wpc = "provider"
  /\ \E outcome \in ProviderOutcomes :
       LET i == Len(results) + 1
           r == process_extract_user_request(outcome)
           record == IF r.raised THEN ErrorRecord("ProviderError")
                     ELSE SuccessRecord(current.request_id, r.value)
       IN  /\ results' = Append(results, record)
           /\ bodies' = Advance(bodies, record)
           /\ extractions' = Append(extractions, Ended(i, outcome))
  /\ current' = NoDecoded
  /\ wpc' = "loop"
  /\ UNCHANGED <<event, wresponse, xoutcome, xresponse>>

\* return {"statusCode": 200, "body": json.dumps({"results": results})}
LambdaReturn ==
  /\ wpc = "loop"
  /\ bodies = <<>>
  /\ wresponse' = [statusCode |-> 200, results |-> results]
  /\ wpc' = "done"
  /\ UNCHANGED <<event, bodies, current, results, extractions, xoutcome, xresponse>>

\* the invocation is over
LambdaEnd ==
  /\ wpc = "done"
  /\ event' = NoEvent
  /\ results' = <<>>
  /\ extractions' = <<>>
  /\ wresponse' = NoWResponse
  /\ wpc' = "idle"
  /\ UNCHANGED <<bodies, current, xoutcome, xresponse>>

\* POST /extract-user: the whole handler; an exception that leaves it is
\* answered 500 by the framework
ExtractUser ==
  /\ wpc = "idle"
  /\ xoutcome = ""
  /\ \E outcome \in ProviderOutcomes :
       LET r == extract_user(outcome)
       IN  /\ xoutcome' = outcome
           /\ xresponse' = IF r.raised THEN [status |-> 500, user |-> NoUser]
                           ELSE [status |-> 200, user |-> r.value]
  /\ UNCHANGED <<event, wpc, bodies, current, results, extractions, wresponse>>

ExtractUserEnd ==
  /\ xoutcome # ""
  /\ xoutcome' = ""
  /\ xresponse' = NoXResponse
  /\ UNCHANGED <<event, wpc, bodies, current, results, extractions, wresponse>>

NextWorker ==
  \/ LambdaStart /\ UNCHANGED <<api_vars, phone_vars, queue_vars, codec_vars, read_vars, cli_vars>>
  \/ ProcessMessageStart /\ UNCHANGED <<api_vars, phone_vars, queue_vars, codec_vars, read_vars, cli_vars>>
  \/ ProcessMessageFinish /\ UNCHANGED <<api_vars, phone_vars, queue_vars, codec_vars, read_vars, cli_vars>>
  \/ LambdaReturn /\ UNCHANGED <<api_vars, phone_vars, queue_vars, codec_vars, read_vars, cli_vars>>
  \/ LambdaEnd /\ UNCHANGED <<api_vars, phone_vars, queue_vars, codec_vars, read_vars, cli_vars>>
  \/ ExtractUser /\ UNCHANGED <<api_vars, phone_vars, queue_vars, codec_vars, read_vars, cli_vars>>
  \/ ExtractUserEnd /\ UNCHANGED <<api_vars, phone_vars, queue_vars, codec_vars, read_vars, cli_vars>>

SpecWorker == InitWorker /\ [][NextWorker]_vars

(***************************************************************************)
(* endpoints.py: supabase_read                                             *)
(***************************************************************************)
Limit(n) == [given |-> TRUE, v |-> n]

\* limit: int | None
Limits == {NoLimit} \cup { Limit(n) : n \in {-1, 0, 1, 2} }

ReadRequests == [table : {"users"}, select : {"*", "id,name"}, limit : Limits]

\* `if request.limit`: None is false, and so is the int 0
LimitTruthy(limit) == limit.given /\ limit.v # 0

\* params = {"select": request.select}; if request.limit: params["limit"] = str(request.limit)
ReadParams(request) ==
  [ select |-> request.select,
    has_limit |-> LimitTruthy(request.limit),
    limit |-> IF LimitTruthy(request.limit) THEN ToString(request.limit.v) ELSE "" ]

\* client.get(url, params=params, headers=headers)
ReadQuery(config, request) ==
  [ url |-> <<config[1], "/rest/v1/", request.table>>,
    params |-> ReadParams(request),
    apikey |-> config[2],
    Authorization |-> <<"Bearer ", config[2]>> ]

\* what the data store answers: a 2xx answer whose body is a JSON list, a JSON
\* object or no JSON; an error status; or no answer (client.get raises)
ReadOk(json, rows) == [kind |-> "ok", status |-> 200, json |-> json, rows |-> rows]

ReadStatus(status) == [kind |-> "http_error", status |-> status, json |-> "", rows |-> <<>>]

ReadTransportError == [kind |-> "transport_error", status |-> 0, json |-> "", rows |-> <<>>]

ReadReplies ==
  { ReadOk("list", rows) : rows \in {<<>>, <<"row1">>, <<"row1", "row2">>} }
  \cup { ReadOk("object", <<>>), ReadOk("invalid", <<>>) }
  \cup { ReadStatus(st) : st \in {400, 401, 404, 500, 503} }
  \cup { ReadTransportError }

ReadHTTPError(status, detail) == [status |-> status, detail |-> detail, data |-> <<>>]

\* the except branch, mutated: the upstream status is replaced by 500
ReadOnHTTPStatusError500(reply) == ReadHTTPError(500, "Failed to read from Supabase")

\* except httpx.HTTPStatusError: status_code=e.response.status_code
ReadOnHTTPStatusError(reply) == ReadHTTPError(reply.status, "Failed to read from Supabase")

\* the try block of supabase_read after client.get, and its except branches:
\* raise_for_status, response.json(), SupabaseReadResponse(data=...) with
\* data: list[Any]
ReadResult(reply) ==
  IF reply.kind = "http_error" THEN ReadOnHTTPStatusError(reply)
  ELSE IF reply.kind = "transport_error" THEN ReadHTTPError(500, "Failed to read from Supabase")
  ELSE IF reply.json # "list" THEN ReadHTTPError(500, "Failed to read from Supabase")
  ELSE [status |-> 200, detail |-> "", data |-> reply.rows]

InitRead ==
  /\ env \in Environments
  /\ OthersIdle

ReadReceive ==
  /\ rpc = "idle"
  /\ rreq' \in ReadRequests
  /\ rpc' = "dep_supabase_config"
  /\ UNCHANGED <<rquery, rreply, rresponse>>

\* supabase_config: tuple[str, str] = Depends(get_supabase_config)
ReadSolveSupabaseConfig ==
  /\ rpc = "dep_supabase_config"
  /\ LET r == get_supabase_config(env)
     IN  IF r.raised
           THEN /\ rresponse' = ReadHTTPError(r.error.status, r.error.detail)
                /\ rpc' = "done"
           ELSE /\ rpc' = "handler"
                /\ UNCHANGED rresponse
  /\ UNCHANGED <<rreq, rquery, rreply>>

\* supabase_read up to `await client.get(...)`
ReadStart ==
  /\ rpc = "handler"
  /\ rquery' = Append(rquery, ReadQuery(get_supabase_config(env).value, rreq))
  /\ rpc' = "await_read"
  /\ UNCHANGED <<rreq, rreply, rresponse>>

\* the data store answers, or the request fails
ReadFinish ==
  /\ rpc = "await_read"
  /\ \E reply \in ReadReplies :
       /\ rreply' = reply
       /\ rresponse' = ReadResult(reply)
  /\ rpc' = "done"
  /\ UNCHANGED <<rreq, rquery>>

ReadRespond ==
  /\ rpc = "done"
  /\ rpc' = "idle"
  /\ rreq' = NoReadRequest
  /\ rquery' = <<>>
  /\ rreply' = NoReadReply
  /\ rresponse' = NoReadResponse

NextRead ==
  \/ ReadReceive /\ UNCHANGED <<api_vars, phone_vars, queue_vars, codec_vars, worker_vars, cli_vars>>
  \/ ReadSolveSupabaseConfig /\ UNCHANGED <<api_vars, phone_vars, queue_vars, codec_vars, worker_vars, cli_vars>>
  \/ ReadStart /\ UNCHANGED <<api_vars, phone_vars, queue_vars, codec_vars, worker_vars, cli_vars>>
  \/ ReadFinish /\ UNCHANGED <<api_vars, phone_vars, queue_vars, codec_vars, worker_vars, cli_vars>>
  \/ ReadRespond /\ UNCHANGED <<api_vars, phone_vars, queue_vars, codec_vars, worker_vars, cli_vars>>

SpecRead == InitRead /\ [][NextRead]_vars

(***************************************************************************)
(* n8n/main.py: the import-workflow command                                *)
(***************************************************************************)
\* --template-values: an empty JSON object, a JSON object that gives every
\* variable a value, text that is not JSON, JSON that is not an object
TemplateValues == {"{}", "object", "not_json", "list"}

\* --workflow-template-path: no such path, a directory, or a file: a
\* workflow without variables, one that uses a variable, text that does not
\* render to JSON, a workflow without "name", one with an empty "name", a
\* JSON list
Templates == {"missing", "directory", "workflow", "workflow_with_variable", "not_json", "no_name", "empty_name", "json_list"}

WorkflowNames == {"wf-a", "wf-b"}

CliArgs == [values : TemplateValues, template : Templates, name : WorkflowNames]

Workflow(id, name) == [id |-> id, name |-> name]

\* the workflows a server may hold; names need not be unique
WorkflowPool == {Workflow("1", "wf-a"), Workflow("2", "wf-b"), Workflow("3", "wf-a")}

\* values = json.loads(template_values): does it raise JSONDecodeError
ValuesDecodeFails(args) == args.values = "not_json"

\* template_path.exists()
TemplateExists(args) == args.template # "missing"

\* render_template(str(template_path), values): raises FileNotFoundError when
\* the path is not a file, TypeError when values is not a mapping,
\* UndefinedError when a variable has no value
RenderFails(args) ==
  \/ args.template = "directory"
  \/ args.values = "list"
  \/ args.template = "workflow_with_variable" /\ args.values = "{}"

\* json.loads(rendered_template) raises JSONDecodeError
RenderedDecodeFails(args) == args.template = "not_json"

\* the command up to the lookup: "sent" when it gets as far as
\* get_workflow_by_name, else how it ended
CliValidation(args) ==
  IF ValuesDecodeFails(args) THEN "exit"
  ELSE IF ~TemplateExists(args) THEN "exit"
  ELSE IF RenderFails(args) THEN "exit"
  ELSE IF RenderedDecodeFails(args) THEN "exit"
  ELSE IF args.template = "json_list" THEN "uncaught"
  ELSE IF args.template \in {"no_name", "empty_name"} THEN "exit"
  ELSE "sent"

\* a request sent to the server and what came of it
Request(method, id, name) == [method |-> method, id |-> id, name |-> name, reply |-> "pending"]

\* what the server does with the lookup: 200 with the workflows of that name,
\* 200 with a body without "data", another status, or no answer
LookupReplies == {"ok", "malformed", "status_error", "transport_error"}

\* what the server does with the create or update request
WriteReplies == {"ok", "no_id", "status_error", "transport_error"}

\* workflows["data"]: the workflows of that name, any of them first
Matching(server, name) == { w \in server : w.name = name }

\* Create or update: the request that follows the lookup
WriteRequest(found, name) ==
  IF found # NoWorkflow THEN Request("PUT", found.id, name) ELSE Request("POST", "", name)

Replied(q, k, reply) == [q EXCEPT ![k].reply = reply]

InitCli ==
  /\ env \in { e \in Environments : \A k \in DOMAIN e : e[k] = None }
  /\ ApiIdle
  /\ PhoneIdle
  /\ QueueIdle
  /\ CodecIdle
  /\ WorkerIdle
  /\ ReadIdle
  /\ cpc = "idle"
  /\ cargs = NoArgs
  /\ n8n_server \in SUBSET WorkflowPool
  /\ crequests = <<>>
  /\ existing_workflow = NoWorkflow
  /\ exit_code = -1

\* import_workflow, lines 122-156: the options are read, the template is
\* rendered and parsed, and the lookup is sent
CliValidate ==
  /\ cpc = "idle"
  /\ \E args \in CliArgs :
       /\ cargs' = args
       /\ IF CliValidation(args) = "sent"
            THEN /\ crequests' = <<Request("GET", "", args.name)>>
                 /\ cpc' = "lookup"
                 /\ UNCHANGED exit_code
            ELSE /\ cpc' = IF CliValidation(args) = "exit" THEN "exited" ELSE "crashed"
                 /\ exit_code' = 1
                 /\ UNCHANGED crequests
  /\ UNCHANGED <<n8n_server, existing_workflow>>

\* get_workflow_by_name returns or raises; lines 159-168 send the create or
\* the update.  An exception of get_workflow_by_name is caught nowhere.
CliLookup ==
  /\ cpc = "lookup"
  /\ \E reply \in LookupReplies :
       IF reply \in {"transport_error", "malformed"}
         THEN /\ crequests' = Replied(crequests, 1, reply)
              /\ cpc' = "crashed"
              /\ exit_code' = 1
              /\ UNCHANGED existing_workflow
         ELSE \E found \in (IF reply = "ok" /\ Matching(n8n_server, cargs.name) # {}
                              THEN Matching(n8n_server, cargs.name) ELSE {NoWorkflow}) :
                /\ existing_workflow' = found
                /\ crequests' = Append(Replied(crequests, 1, reply), WriteRequest(found, cargs.name))
                /\ cpc' = "write"
                /\ UNCHANGED exit_code
  /\ UNCHANGED <<cargs, n8n_server>>

\* update_workflow or create_workflow returns or raises; lines 165-172
CliWrite ==
  /\ cpc = "write"
  /\ \E reply \in WriteReplies :
       /\ crequests' = Replied(crequests, 2, reply)
       /\ cpc' = IF reply = "no_id" THEN "crashed" ELSE "exited"
       /\ exit_code' = IF reply = "ok" THEN 0 ELSE 1
  /\ UNCHANGED <<cargs, n8n_server, existing_workflow>>

\* the process is gone; the server stays
CliEnd ==
  /\ cpc \in {"exited", "crashed"}
  /\ cpc' = "idle"
  /\ cargs' = NoArgs
  /\ crequests' = <<>>
  /\ existing_workflow' = NoWorkflow
  /\ exit_code' = -1
  /\ UNCHANGED n8n_server

NextCli ==
  \/ CliValidate /\ UNCHANGED <<api_vars, phone_vars, queue_vars, codec_vars, worker_vars, read_vars>>
  \/ CliLookup /\ UNCHANGED <<api_vars, phone_vars, queue_vars, codec_vars, worker_vars, read_vars>>
  \/ CliWrite /\ UNCHANGED <<api_vars, phone_vars, queue_vars, codec_vars, worker_vars, read_vars>>
  \/ CliEnd /\ UNCHANGED <<api_vars, phone_vars, queue_vars, codec_vars, worker_vars, read_vars>>

SpecCli == InitCli /\ [][NextCli]_vars

(***************************************************************************)
(* The three operations that call an external service, one operation at a  *)
(* time: the webhook resolver, the queue dispatcher and the worker.        *)
(***************************************************************************)
\* no operation is under way
AtRest == pc = "idle" /\ qpc = "idle" /\ wpc = "idle" /\ xoutcome = ""

InitOps == Init \/ InitQueue

NextOps ==
  \/ AtRest /\ Receive /\ UNCHANGED <<phone_vars, queue_vars, codec_vars, worker_vars, read_vars, cli_vars>>
  \/ SolveSupabaseConfig /\ UNCHANGED <<phone_vars, queue_vars, codec_vars, worker_vars, read_vars, cli_vars>>
  \/ SolveWebhookAuth /\ UNCHANGED <<phone_vars, queue_vars, codec_vars, worker_vars, read_vars, cli_vars>>
  \/ WebhookStart /\ UNCHANGED <<phone_vars, queue_vars, codec_vars, worker_vars, read_vars, cli_vars>>
  \/ WebhookFinish /\ UNCHANGED <<phone_vars, queue_vars, codec_vars, worker_vars, read_vars, cli_vars>>
  \/ CustomWebhook /\ UNCHANGED <<phone_vars, queue_vars, codec_vars, worker_vars, read_vars, cli_vars>>
  \/ Respond /\ UNCHANGED <<phone_vars, queue_vars, codec_vars, worker_vars, read_vars, cli_vars>>
  \/ AtRest /\ QReceive /\ UNCHANGED <<api_vars, phone_vars, codec_vars, worker_vars, read_vars, cli_vars>>
  \/ SolveQueueService /\ UNCHANGED <<api_vars, phone_vars, codec_vars, worker_vars, read_vars, cli_vars>>
  \/ CallSendMessage /\ UNCHANGED <<api_vars, phone_vars, codec_vars, worker_vars, read_vars, cli_vars>>
  \/ AwaitSendMessage /\ UNCHANGED <<api_vars, phone_vars, codec_vars, worker_vars, read_vars, cli_vars>>
  \/ ExtractUserAsyncFinish /\ UNCHANGED <<api_vars, phone_vars, codec_vars, worker_vars, read_vars, cli_vars>>
  \/ QRespond /\ UNCHANGED <<api_vars, phone_vars, codec_vars, worker_vars, read_vars, cli_vars>>
  \/ AtRest /\ LambdaStart /\ UNCHANGED <<api_vars, phone_vars, queue_vars, codec_vars, read_vars, cli_vars>>
  \/ ProcessMessageStart /\ UNCHANGED <<api_vars, phone_vars, queue_vars, codec_vars, read_vars, cli_vars>>
  \/ ProcessMessageFinish /\ UNCHANGED <<api_vars, phone_vars, queue_vars, codec_vars, read_vars, cli_vars>>
  \/ LambdaReturn /\ UNCHANGED <<api_vars, phone_vars, queue_vars, codec_vars, read_vars, cli_vars>>
  \/ LambdaEnd /\ UNCHANGED <<api_vars, phone_vars, queue_vars, codec_vars, read_vars, cli_vars>>

SpecOps == InitOps /\ [][NextOps]_vars

\* the formatter took neither the US/Canada branch nor the German branch
NoFormatBranch ==
  /\ ~(Len(cleaned) = 12 /\ cleaned[1] = "+" /\ cleaned[2] = "1")
  /\ ~(Len(cleaned) >= 3 /\ cleaned[1] = "+" /\ cleaned[2] = "4" /\ cleaned[3] = "9")

\* C11: for every non-sentinel input whose cleaned form neither starts with
\* "+1" with exactly 12 characters nor starts with "+49", the formatter returns
\* the original input, character for character, not the cleaned form.
C11_OtherNumbersUnchanged ==
  (Formatted /\ phone_number \notin {<<>>, Anonymous} /\ NoFormatBranch) =>
    formatted = phone_number

C11_Witness ==
  /\ Formatted
  /\ NoFormatBranch
  /\ cleaned # <<>>
  /\ cleaned # phone_number
  /\ formatted = phone_number

\* C12: for every non-sentinel number, a +49 number can receive SMS exactly
\* when the character right after the country code is 1 and the next one is
\* 5, 6 or 7 (false also when fewer than two characters follow); every other
\* number can.
C12_SmsCapability ==
  (SmsDecided /\ phone_number \notin {<<>>, Anonymous}) =>
    IF Len(phone_number) >= 3 /\ SubSeq(phone_number, 1, 3) = <<"+", "4", "9">>
      THEN sms <=> ( /\ Len(phone_number) >= 5
                     /\ phone_number[4] = "1"
                     /\ phone_number[5] \in {"5", "6", "7"} )
      ELSE sms = TRUE

C12_Witness ==
  /\ SmsDecided
  /\ Len(phone_number) = 4
  /\ SubSeq(phone_number, 1, 4) = <<"+", "4", "9", "1">>
  /\ sms = FALSE

\* C17: for every request text t, the body send_message submits, read by the
\* worker's QueueMessage model, has payload.text identical to t and the
\* request_id generated for the attempt; the wire form is the JSON object
\* {"request_id": ..., "payload": {"text": ...}}.
C17_RoundTrip ==
  /\ "dump" \in cdone =>
       /\ Len(message_body) >= 18
       /\ SubSeq(message_body, 1, 5) = <<"{", "\"", "request_id", "\"", ":">>
       /\ SubSeq(message_body, 9, 18) = <<",", "\"", "payload", "\"", ":", "{", "\"", "text", "\"", ":">>
       /\ SubSeq(message_body, Len(message_body) - 1, Len(message_body)) = <<"}", "}">>
  /\ "validate" \in cdone =>
       /\ decoded.ok
       /\ decoded.text = queue_message.text
       /\ decoded.request_id = queue_message.request_id

C17_Witness ==
  /\ "validate" \in cdone
  /\ queue_message.text = <<"\\", "n", "\"">>
  /\ decoded.text = queue_message.text
  /\ Len(message_body) = 27

\* the call of send_message has come back to its caller
SendMessageCalled == qpc \in {"called", "returned"}

\* the attempt made by the call that has just come back, if it made one
LastAttempt == attempts[Len(attempts)]

\* C13: the caller of send_message receives the generated request identifier
\* when the submission succeeds and None when it raises, and the value it
\* receives is the identifier itself or None, usable without a further step.
C13_SendMessageResult ==
  SendMessageCalled =>
    /\ request_id.kind \in {"str", "none"}
    /\ Len(attempts) > 0
    /\ request_id.kind = "none" <=> LastAttempt.raised
    /\ request_id.kind = "str" => request_id.v = LastAttempt.request_id

\* C14: POST /extract-user-async answers 200 with the request_id carried in
\* the enqueued message, or 500 "Failed to send message to queue" when the
\* submission failed.
C14_AsyncEndpoint ==
  (qpc = "done" /\ qreq.caller \in Handlers /\ ~Falsy(sqs_queue_url)) =>
    \/ /\ qresponse.status = 200
       /\ Len(sqs) > 0
       /\ model_validate_json(sqs[Len(sqs)]).request_id = qresponse.request_id
    \/ /\ qresponse.status = 500
       /\ qresponse.detail = "Failed to send message to queue"
       /\ Len(attempts) > 0
       /\ LastAttempt.raised

\* C15: when the configured queue URL is unset or empty, the request is
\* rejected with the 500 configuration error, no QueueService is constructed
\* and nothing is submitted; every submission is made with a non-empty URL.
C15_QueueUrlPrecondition ==
  /\ sqs_queue_url \in {None, ""} =>
       /\ ~queue_service.constructed
       /\ attempts = <<>>
       /\ sqs = <<>>
       /\ qpc = "done" => /\ qresponse.status = 500
                          /\ qresponse.detail = "SQS queue URL not configured"
  /\ \A i \in 1..Len(attempts) : attempts[i].QueueUrl \notin {None, ""}

C15_Witness ==
  /\ sqs_queue_url = ""
  /\ qpc = "done"
  /\ qreq.caller = "endpoints.extract_user_async"
  /\ qresponse.status = 500

\* C16: across any sequence of executions of send_message, successful or
\* failed, no two enqueue attempts carry the same request_id, and the
\* identifier of a failed attempt is not used by a later one.
C16_FreshRequestId ==
  \A i, j \in 1..Len(attempts) :
    i # j => attempts[i].request_id # attempts[j].request_id

C16_Witness ==
  /\ Len(attempts) = 3
  /\ attempts[1].raised
  /\ ~attempts[2].raised
  /\ attempts[3].raised

\* what the log says about message i once its record exists: the end of its
\* provider call, or the error raised before the call
LogOf(i) ==
  CHOOSE e \in { extractions[k] : k \in 1..Len(extractions) } : e.i = i /\ e.ev # "start"

IsSuccessRecord(r) == DOMAIN r = {"request_id", "result", "success"} /\ r.success = TRUE

IsErrorRecord(r) == DOMAIN r = {"error", "success"} /\ r.success = FALSE

\* C18, as the code has it: a message that deserializes and whose provider
\* call is made gets {request_id, result, success: true}, where result is
\* the user, or null when the provider returned none or raised; a message
\* that does not deserialize, or whose processing raises outside the provider
\* call, gets {error, success: false}.
C18_RecordPerMessage ==
  \A i \in 1..Len(results) :
    LET m == model_validate_json(MessageBodies(event)[i])
        e == LogOf(i)
    IN  /\ ~m.ok => IsErrorRecord(results[i]) /\ e.ev = "error"
        /\ e.ev = "error" => IsErrorRecord(results[i])
        /\ e.ev = "end" =>
             /\ m.ok
             /\ IsSuccessRecord(results[i])
             /\ results[i].request_id = m.request_id
             /\ e.outcome = "user" => results[i].result = Alice
             /\ e.outcome \in {"none", "raises"} => results[i].result.t = "null"

\* C18, as stated: the record is {request_id, result, success: true} when the
\* message deserializes and extraction succeeds, and {error, success: false}
\* when deserialization or processing fails, the provider raising included.
C18_ProviderErrorIsErrorRecord ==
  \A i \in 1..Len(results) :
    LET m == model_validate_json(MessageBodies(event)[i])
        e == LogOf(i)
    IN  IF m.ok /\ e.ev = "end" /\ e.outcome # "raises"
          THEN IsSuccessRecord(results[i]) /\ results[i].request_id = m.request_id
          ELSE IsErrorRecord(results[i])

C18_Witness ==
  /\ Len(results) = 2
  /\ LogOf(1).outcome = "raises"
  /\ IsSuccessRecord(results[1])
  /\ results[1].result.t = "null"
  /\ LogOf(2).outcome = "ValidationError"
  /\ IsErrorRecord(results[2])

\* C19: a queue-delivery event with n records is answered 200 with n result
\* records, results[i] belonging to Records[i]; the provider call of a message
\* ends before anything of the next message happens; a message that fails
\* does not stop the later ones; a direct invocation yields one record.
C19_BatchLoop ==
  /\ \A k \in 1..Len(extractions) :
       /\ k > 1 => extractions[k - 1].i <= extractions[k].i
       /\ (extractions[k].ev = "start" /\ k < Len(extractions)) =>
            extractions[k + 1].ev = "end" /\ extractions[k + 1].i = extractions[k].i
  /\ wpc = "done" =>
       /\ wresponse.statusCode = 200
       /\ IsDirectInvocation(event) => Len(wresponse.results) = 1
       /\ ~IsDirectInvocation(event) =>
            /\ Len(wresponse.results) = Len(event.records)
            /\ \A i \in 1..Len(event.records) :
                 LET r == wresponse.results[i]
                     rec == event.records[i]
                 IN  /\ LogOf(i).i = i
                     /\ "request_id" \in DOMAIN r =>
                          /\ rec.has_body
                          /\ r.request_id = model_validate_json(rec.body).request_id
                     /\ (~rec.has_body \/ ~model_validate_json(rec.body).ok) =>
                          "error" \in DOMAIN r

C19_Witness ==
  /\ wpc = "done"
  /\ event.keys = {"Records"}
  /\ Len(event.records) = 2
  /\ event.records[1].body = BadJsonBody
  /\ event.records[2].body = GoodBody2
  /\ wresponse.statusCode = 200
  /\ "error" \in DOMAIN wresponse.results[1]
  /\ "request_id" \in DOMAIN wresponse.results[2]
  /\ wresponse.results[2].request_id = Uuid4(2)

\* C20: whenever the provider call raises, the extraction returns null
\* instead of propagating the exception, in the worker's Processor and in the
\* POST /extract-user handler alike.
C20_FailSoft ==
  /\ \A i \in 1..Len(results) :
       (LogOf(i).ev = "end" /\ LogOf(i).outcome = "raises") =>
         IsSuccessRecord(results[i]) /\ results[i].result.t = "null"
  /\ xoutcome = "raises" => xresponse.status = 200 /\ xresponse.user.t = "null"

SupabaseConfigured ==
  env["SUPABASE_URL"] \notin {None, ""} /\ env["SUPABASE_KEY"] \notin {None, ""}

\* C21: POST /supabase-read answers 500 and sends no data-store request when
\* the Supabase URL or key is not configured; it answers with the data
\* store's status s when the data store answers with an error status s; 500 on
\* any other failure of the read; and 200 with the rows only on a successful
\* read.
C21_ReadErrorSurfacing ==
  /\ ~SupabaseConfigured => rquery = <<>>
  /\ rpc = "done" =>
       IF ~SupabaseConfigured THEN rresponse.status = 500
       ELSE /\ Len(rquery) = 1
            /\ rreply.kind = "http_error" => rresponse.status = rreply.status
            /\ rreply.kind = "transport_error" => rresponse.status = 500
            /\ (rreply.kind = "ok" /\ rreply.json # "list") => rresponse.status = 500
            /\ (rreply.kind = "ok" /\ rreply.json = "list") =>
                 rresponse.status = 200 /\ rresponse.data = rreply.rows
            /\ rresponse.status = 200 => rreply.kind = "ok"

C21_Witness ==
  /\ rpc = "done"
  /\ SupabaseConfigured
  /\ rreply.kind = "http_error"
  /\ rreply.status = 404
  /\ rresponse.status = 404

\* C22: the data-store query carries the row limit whenever the request
\* gives a limit, for every integer limit, and carries none only when the
\* request has no limit.
C22_LimitApplied ==
  \A k \in 1..Len(rquery) :
    /\ rquery[k].params.has_limit <=> rreq.limit.given
    /\ rreq.limit.given => rquery[k].params.limit = ToString(rreq.limit.v)

\* the run is over
CliOver == cpc \in {"exited", "crashed"}

\* the template-values are a JSON object, the template file renders to a
\* workflow with a non-empty name
TemplateValid ==
  /\ cargs.values \in {"{}", "object"}
  /\ cargs.template \in {"workflow", "workflow_with_variable"}
  /\ cargs.template = "workflow_with_variable" => cargs.values = "object"

Writes == { k \in 1..Len(crequests) : crequests[k].method \in {"PUT", "POST"} }

\* C23: after the template is validated, import-workflow calls
\* update_workflow with the existing workflow's id if and only if a workflow
\* of the template's name exists on the server, and create_workflow
\* otherwise, exactly one of the two per run; a request error of that call
\* ends the run with exit code 1; every validation failure ends with exit
\* code 1 before any request is sent.
C23_CreateOrUpdate ==
  CliOver =>
    IF TemplateValid
      THEN /\ Cardinality(Writes) = 1
           /\ \A k \in Writes :
                /\ crequests[k].method = "PUT" <=> (\E w \in n8n_server : w.name = cargs.name)
                /\ crequests[k].method = "PUT" =>
                     Workflow(crequests[k].id, cargs.name) \in n8n_server
                /\ crequests[k].reply \in {"status_error", "transport_error"} => exit_code = 1
      ELSE exit_code = 1 /\ crequests = <<>>

\* how often the provider was called for message i
ProviderCalls(i) ==
  Cardinality({ k \in 1..Len(extractions) : extractions[k].ev = "start" /\ extractions[k].i = i })

\* C24: no retries: one execution of send_message submits to the queue once,
\* the webhook resolver reads the data store at most once per call, the worker
\* calls the provider exactly once per message that deserializes; a failed
\* external call is not made again and becomes an absence or error result.
C24_NoRetries ==
  /\ Len(attempts) = uuid_calls
  /\ (qpc = "returned" /\ LastAttempt.raised) => request_id.kind = "none"
  /\ Len(dsLog) <= 1
  /\ (pc = "done" /\ dsReply.kind \in {"http_error", "transport_error"}) =>
       /\ Len(dsLog) = 1
       /\ DOMAIN response.dynamic_variables = {"error"}
  /\ \A i \in 1..Len(results) :
       /\ ProviderCalls(i) = IF model_validate_json(MessageBodies(event)[i]).ok THEN 1 ELSE 0
       /\ LogOf(i).outcome = "raises" => results[i].result.t = "null"

C24_Witness ==
  /\ Len(attempts) = 2
  /\ attempts[1].raised
  /\ wpc = "done"
  /\ Len(results) = 2
  /\ LogOf(1).outcome = "raises"
  /\ ProviderCalls(1) = 1
  /\ ProviderCalls(2) = 1

\* C25: no deduplication: a message delivered k times, in one batch or in
\* several invocations, is extracted k times and gets k records; between
\* messages and between invocations the worker keeps nothing.
C25_NoDeduplication ==
  /\ (wpc = "done" /\ ~IsDirectInvocation(event)) =>
       /\ Len(results) = Len(event.records)
       /\ \A i \in 1..Len(event.records) :
            model_validate_json(BodyOf(event.records[i])).ok =>
              /\ ProviderCalls(i) = 1
              /\ IsSuccessRecord(results[i])
              /\ results[i].request_id = model_validate_json(BodyOf(event.records[i])).request_id
  /\ wpc = "idle" =>
       /\ results = <<>>
       /\ extractions = <<>>
       /\ bodies = <<>>
       /\ current = NoDecoded
  /\ wpc = "loop" => current = NoDecoded

C25_Witness ==
  /\ wpc = "done"
  /\ event.keys = {"Records"}
  /\ Len(event.records) = 2
  /\ event.records[1] = event.records[2]
  /\ event.records[1].body = GoodBody1
  /\ ProviderCalls(1) = 1
  /\ ProviderCalls(2) = 1
  /\ results[1].request_id = results[2].request_id

\* the tokens of a text
Range(text) == { text[p] : p \in 1..Len(text) }

\* the positions of a token in a JSON text
Positions(text, tok) == { p \in 1..Len(text) : text[p] = tok }

\* the position of the i-th occurrence of a token
Nth(text, tok, i) ==
  CHOOSE p \in Positions(text, tok) :
    Cardinality({ q \in Positions(text, tok) : q <= p }) = i

\* the positions of the key names of the i-th object of a JSON array text
KeyPositions(text, i) ==
  { p \in Nth(text, "{", i)..Nth(text, "}", i) :
      /\ p + 2 <= Len(text)
      /\ text[p + 1] = "\""
      /\ text[p + 2] = ":" }

\* the value written after a key of the i-th object
ValueAt(text, i, key) ==
  LET p == CHOOSE q \in KeyPositions(text, i) : text[q] = key
  IN  IF text[p + 3] = "\"" THEN Str(text[p + 4]) ELSE Null

LocationKeys ==
  {"location_id", "location_name", "check_in_support_type", "website_url",
   "contact_email"}

\* names and values of the row columns that are not location fields
OtherRowContent ==
  {"phone_number", "closure_periods", "aura_account", "agent_config", "name",
   "test_account", "hotel_category", "preferred_currency", "welcomeMessage",
   "agentName", "formOfAddress", "2026-01-01", "Hotel A", "Hotel B", "Hotel C",
   "luxury", "budget", "hostel", "EUR", "USD", "CHF", "Welcome", "Aura",
   "Informal", "Hi", "Bot", "Casual"}

\* C26: for every list of rows a successful resolution was built from,
\* location_details is a compact JSON array with one object per row in row
\* order, each object has exactly the five location keys, and no other name
\* or value of a row appears in it.
C26_LocationSanitization ==
  Resolved =>
    LET rows == dsReply.rows
        text == response.dynamic_variables.location_details.v
    IN  /\ text[1] = "[" /\ text[Len(text)] = "]"
        /\ " " \notin Range(text)
        /\ Cardinality(Positions(text, "{")) = Len(rows)
        /\ Cardinality(Positions(text, "}")) = Len(rows)
        /\ \A i \in 1..Len(rows) :
             /\ Nth(text, "{", i) < Nth(text, "}", i)
             /\ i < Len(rows) => Nth(text, "}", i) < Nth(text, "{", i + 1)
             /\ Cardinality(KeyPositions(text, i)) = 5
             /\ { text[p] : p \in KeyPositions(text, i) } = LocationKeys
             /\ ValueAt(text, i, "location_id") =
                  (IF rows[i].id.t = "missing" THEN Null ELSE rows[i].id)
             /\ ValueAt(text, i, "location_name") =
                  (IF rows[i].location_name.t = "missing" THEN Null
                   ELSE rows[i].location_name)
        /\ Range(text) \cap OtherRowContent = {}

C26_Witness ==
  /\ Resolved
  /\ Len(dsReply.rows) = 2
  /\ dsReply.rows[1].id.t = "missing"
  /\ dsReply.rows[2].id = Str("loc1")
  /\ dsReply.rows[2].closure_periods = Str("2026-01-01")
  /\ dsReply.rows[2].phone_number.t = "obj"
  /\ Len(response.dynamic_variables.location_details.v) > 2

\* an optional field of an object of the row has a value: it is there and
\* it is not null
HasValue(obj, field) ==
  obj.t = "obj" /\ obj[field].t \notin {"missing", "null"}

\* the default of each optional account and agent-configuration variable
AccountDefaults ==
  [host_name |-> [field |-> "name", default |-> ""],
   test_account |-> [field |-> "test_account", default |-> "False"],
   hotel_category |-> [field |-> "hotel_category", default |-> ""],
   preferred_currency |-> [field |-> "preferred_currency", default |-> "EUR"]]

AgentConfigDefaults ==
  [welcomeMessage |-> [field |-> "welcomeMessage", default |-> ""],
   agent_name |-> [field |-> "agentName", default |-> ""],
   formOfAddress |-> [field |-> "formOfAddress", default |-> "Formal"]]

\* C27: in every successful variable set every value is a string, and every
\* optional account or agent-configuration field without a value in the
\* first row, missing or null, takes its default: "" for the names, the
\* category and the welcome message, "False" for test_account, "EUR" for
\* preferred_currency, "Formal" for formOfAddress.
C27_StringsAndDefaults ==
  Resolved =>
    LET dv == response.dynamic_variables
        account == AccountOf(dsReply.rows[1])
        agent_config == AgentConfigOf(dsReply.rows[1])
    IN  /\ \A k \in DOMAIN dv : dv[k].t = "str"
        /\ \A k \in DOMAIN AccountDefaults :
             ~HasValue(account, AccountDefaults[k].field) =>
               dv[k] = Str(AccountDefaults[k].default)
        /\ \A k \in DOMAIN AgentConfigDefaults :
             ~HasValue(agent_config, AgentConfigDefaults[k].field) =>
               dv[k] = Str(AgentConfigDefaults[k].default)

\* the same for the fields that are missing from the row, null left aside
C27_MissingOnly ==
  Resolved =>
    LET dv == response.dynamic_variables
        account == AccountOf(dsReply.rows[1])
        agent_config == AgentConfigOf(dsReply.rows[1])
        IsNull(obj, field) == obj.t = "obj" /\ obj[field].t = "null"
    IN  /\ \A k \in DOMAIN AccountDefaults :
             IF IsNull(account, AccountDefaults[k].field) THEN TRUE
             ELSE /\ dv[k].t = "str"
                  /\ ~HasValue(account, AccountDefaults[k].field) =>
                       dv[k] = Str(AccountDefaults[k].default)
        /\ \A k \in DOMAIN AgentConfigDefaults :
             IF IsNull(agent_config, AgentConfigDefaults[k].field) THEN TRUE
             ELSE /\ dv[k].t = "str"
                  /\ ~HasValue(agent_config, AgentConfigDefaults[k].field) =>
                       dv[k] = Str(AgentConfigDefaults[k].default)
        /\ \A k \in DOMAIN dv \ (DOMAIN AccountDefaults \cup DOMAIN AgentConfigDefaults) :
             dv[k].t = "str"

\* the digits of a string, in order
DigitsOf(s) == SelectSeq(s, isdigit)

\* C28: for every caller id whose cleaned form has at least two digits,
\* last_two_digits equals the last two digits of the cleaned number and
\* consists of digit characters only, for US, German and all other numbers.
C28_LastTwoDigits ==
  Resolved =>
    LET digits == DigitsOf(Clean(req.caller_id))
        last_two_digits == response.dynamic_variables.last_two_digits.v
    IN  Len(digits) >= 2 =>
          /\ last_two_digits = Tail_n(digits, 2)
          /\ \A i \in 1..Len(last_two_digits) : isdigit(last_two_digits[i])

\* C29: for every caller id x, _can_receive_sms(x) equals _can_receive_sms of
\* the cleaned form of x that _format_phone_number works on; a number the
\* formatter treats as German after cleaning is judged by the German
\* mobile-prefix rule on its cleaned digits.
C29_SameClassification ==
  (Formatted /\ SmsDecided) =>
    /\ sms = _can_receive_sms(cleaned)
    /\ startswith(cleaned, <<"+", "4", "9">>) =>
         sms = IsGermanMobile(SliceFrom(cleaned, 3))

\* the same for the caller ids that cleaning leaves as they are
C29_CleanInputs ==
  (Formatted /\ SmsDecided /\ (IsSentinel(phone_number) \/ cleaned = phone_number)) =>
    /\ sms = _can_receive_sms(cleaned)
    /\ startswith(cleaned, <<"+", "4", "9">>) =>
         sms = IsGermanMobile(SliceFrom(cleaned, 3))

\* the event of the invocation has both top-level keys request_id and payload
BothKeys == {"request_id", "payload"} \subseteq event.keys

\* the messages of the invocation: those already answered and those to come
MessageCount == Len(results) + Len(bodies)

\* C30: an event is a direct invocation iff it has both top-level keys
\* request_id and payload; then exactly one message, the event itself, is
\* processed and its Records are ignored. Every other event is a queue batch:
\* without a Records key the results list is empty and statusCode is 200; a
\* record without a body is processed as the body "{}" and yields
\* {error, success: false}.
C30_InvocationShape ==
  /\ wpc \in {"loop", "provider"} =>
       IF BothKeys
         THEN /\ MessageCount = 1
              /\ Len(bodies) = 1 /\ event.direct.request_id.t = "str" /\ event.direct.text.t = "str" =>
                   /\ model_validate_json(bodies[1]).ok
                   /\ model_validate_json(bodies[1]).request_id = event.direct.request_id.v
                   /\ model_validate_json(bodies[1]).text = event.direct.text.v
         ELSE IF "Records" \notin event.keys THEN MessageCount = 0
         ELSE /\ MessageCount = Len(event.records)
              /\ \A i \in 1..Len(bodies) :
                   LET record == event.records[Len(results) + i]
                   IN  bodies[i] = IF record.has_body THEN record.body ELSE <<"{", "}">>
  /\ wpc = "done" =>
       /\ wresponse.statusCode = 200
       /\ IF BothKeys
            THEN /\ Len(wresponse.results) = 1
                 /\ IF event.direct.request_id.t = "str" /\ event.direct.text.t = "str"
                      THEN /\ IsSuccessRecord(wresponse.results[1])
                           /\ wresponse.results[1].request_id = event.direct.request_id.v
                      ELSE IsErrorRecord(wresponse.results[1])
            ELSE IF "Records" \notin event.keys THEN wresponse.results = <<>>
            ELSE /\ Len(wresponse.results) = Len(event.records)
                 /\ \A i \in 1..Len(event.records) :
                      ~event.records[i].has_body => IsErrorRecord(wresponse.results[i])

C30_Witness ==
  /\ wpc = "done"
  /\ event.keys = {"request_id", "payload", "Records"}
  /\ Len(event.records) = 2
  /\ Len(wresponse.results) = 1
  /\ IsSuccessRecord(wresponse.results[1])

\* a batch without a Records key, and a batch with a record without a body
C30_WitnessBatch ==
  /\ wpc = "done"
  /\ event.keys = {"payload", "Records"}
  /\ ~event.records[1].has_body
  /\ IsErrorRecord(wresponse.results[1])

====
